---- MODULE Spec2Model ----
(***************************************************************************)
(* EasyRec feature engineering core.                                       *)
(*                                                                         *)
(*   - FeatureColumnParser (feature_column/feature_column.py): the Feature *)
(*     Column Registry.  Its constructor is modelled as a process with one *)
(*     step for the shared-embedding census (lines 68-109), one step per   *)
(*     catalogue entry of the classification loop (lines 111-131) and one  *)
(*     step for building and resolving the shared columns (133-177).       *)
(*   - Input._preprocess (input/input.py): the Feature Preprocessor, one   *)
(*     call per step.                                                      *)
(*                                                                         *)
(* Python objects are records, dicts are functions, lists are sequences.   *)
(* An operator that models a method which may raise returns a record       *)
(* [self |-> the object after the call, raised |-> the exception or "None"]*)
(***************************************************************************)
EXTENDS Integers, Sequences, FiniteSets, TLC

VARIABLES
  parser,       \* the FeatureColumnParser object under construction
  pc,           \* position of the constructor / of the call in progress
  idx,          \* index of the next catalogue entry of the classification loop
  raised,       \* the exception that ended the operation, "None" otherwise
  input,        \* the Input object (its feature configs and _appended_fields)
  field_dict,   \* the raw batch handed to Input._preprocess
  parsed_dict,  \* the dict Input._preprocess returns
  calls,        \* number of Input._preprocess calls made on the Input object
  call,         \* arguments of a pure function under evaluation
  ret           \* its result

vars == <<parser, pc, idx, raised, input, field_dict, parsed_dict, calls, call, ret>>
registryVars == <<parser, idx>>
inputVars == <<input, field_dict, parsed_dict, calls>>
pureVars == <<call, ret>>

(***************************************************************************)
(* Bounds of the model.                                                    *)
(***************************************************************************)
MaxFeatures == 2

(***************************************************************************)
(* Dicts and lists.                                                        *)
(***************************************************************************)
EmptyDict == <<>>

Put(d, k, v) == [x \in (DOMAIN d) \cup {k} |-> IF x = k THEN v ELSE d[x]]

Del(d, ks) == [x \in (DOMAIN d) \ ks |-> d[x]]

Range(s) == {s[i] : i \in DOMAIN s}

(***************************************************************************)
(* FeatureConfig (protos/feature_config.proto as read by the code).        *)
(* Optional scalar fields carry a has_ flag for HasField; an unset field   *)
(* reads as its default.                                                   *)
(***************************************************************************)
FieldNames == <<"f1", "f2", "f3", "f4">>

DefaultConfig ==
  [ feature_type |-> "IdFeature",
    has_feature_name |-> FALSE, feature_name |-> "",
    input_names |-> <<"f1">>,
    has_embedding_name |-> FALSE, embedding_name |-> "",
    embedding_dim |-> 0,
    combiner |-> "mean",
    has_initializer |-> FALSE, initializer |-> "",
    max_partitions |-> 1,
    has_hash_bucket_size |-> FALSE, hash_bucket_size |-> 0,
    vocab_list |-> <<>>,
    vocab_file |-> "",
    num_buckets |-> 0,
    boundaries |-> <<>>,
    min_val |-> 0, max_val |-> 0,
    raw_input_dim |-> 1,
    sub_feature_type |-> "IdFeature",
    sequence_length |-> 1,
    has_sequence_combiner |-> FALSE, sequence_combiner |-> "",
    has_kv_separator |-> FALSE ]

\* feature_name when set, else the first input name (e.g. lines 191-195)
FeatureName(config) ==
  IF config.has_feature_name THEN config.feature_name ELSE config.input_names[1]

(***************************************************************************)
(* Feature columns.  The column constructors of                            *)
(* easy_rec.python.compat.feature_column are records of their arguments.   *)
(***************************************************************************)
categorical_column_with_hash_bucket(key, size) ==
  [kind |-> "hash_bucket", key |-> key, hash_bucket_size |-> size]

categorical_column_with_vocabulary_list(key, vocabulary_list) ==
  [kind |-> "vocabulary_list", key |-> key, vocabulary_list |-> vocabulary_list]

categorical_column_with_vocabulary_file(key, vocabulary_file, vocabulary_size) ==
  [kind |-> "vocabulary_file", key |-> key, vocabulary_file |-> vocabulary_file,
   vocabulary_size |-> vocabulary_size]

categorical_column_with_identity(key, num_buckets) ==
  [kind |-> "identity", key |-> key, num_buckets |-> num_buckets]

weighted_categorical_column(fc, weight_feature_key) ==
  [kind |-> "weighted", categorical |-> fc, weight_feature_key |-> weight_feature_key]

numeric_column(key, dim) == [kind |-> "numeric", key |-> key, shape |-> dim]

bucketized_column(fc, bounds) ==
  [kind |-> "bucketized", source |-> fc, boundaries |-> bounds]

crossed_column(keys, size) ==
  [kind |-> "crossed", keys |-> keys, hash_bucket_size |-> size]

\* sequence_feature_column.sequence_*: the same column marked as a sequence one
sequence_column(fc) == [kind |-> "sequence", column |-> fc]

sequence_numeric_column_with_raw_column(fc, sequence_length) ==
  [kind |-> "sequence_raw", source |-> fc, sequence_length |-> sequence_length]

embedding_column(fc, dimension, combiner, initializer, partitioner) ==
  [kind |-> "embedding", categorical |-> fc, dimension |-> dimension,
   combiner |-> combiner, initializer |-> initializer, partitioner |-> partitioner,
   sequence_combiner |-> "None"]

\* one shared column per categorical column, in the order given
shared_embedding_columns(fcs, dimension, initializer, name, combiner, partitioner) ==
  [i \in DOMAIN fcs |->
    [kind |-> "shared_embedding", categorical |-> fcs[i], dimension |-> dimension,
     combiner |-> combiner, initializer |-> initializer, partitioner |-> partitioner,
     shared_embedding_collection_name |-> name, sequence_combiner |-> "None"]]

\* class SharedEmbedding: the handle stored until the shared columns are built
SharedEmbedding(embedding_name, index, sequence_combiner) ==
  [kind |-> "SharedEmbedding", embedding_name |-> embedding_name, index |-> index,
   sequence_combiner |-> sequence_combiner]

\* embed_name + '_wide' (line 157)
WideCollectionName(embed_name) ==
  CASE embed_name = "e1" -> "e1_wide"
    [] embed_name = "e2" -> "e2_wide"
    [] OTHER -> "_wide"

\* field name + suffix, for the fields the preprocessor appends
Suffixed(name, suffix) ==
  CASE suffix = "_WEIGHT" ->
         (CASE name = "f1" -> "f1_WEIGHT" [] name = "f2" -> "f2_WEIGHT"
            [] name = "f3" -> "f3_WEIGHT" [] OTHER -> "f4_WEIGHT")
    [] suffix = "_raw_proj_id" ->
         (CASE name = "f1" -> "f1_raw_proj_id" [] name = "f2" -> "f2_raw_proj_id"
            [] name = "f3" -> "f3_raw_proj_id" [] OTHER -> "f4_raw_proj_id")
    [] OTHER ->
         (CASE name = "f1" -> "f1_raw_proj_val" [] name = "f2" -> "f2_raw_proj_val"
            [] name = "f3" -> "f3_raw_proj_val" [] OTHER -> "f4_raw_proj_val")

(***************************************************************************)
(* FeatureColumnParser: results of methods that may raise.                 *)
(***************************************************************************)
Ok(p) == [self |-> p, raised |-> "None"]

Raise(p, e) == [self |-> p, raised |-> e]

\* FeatureColumnParser.__init__, lines 55-66: the object before the loops
NewParser(feature_configs, wide_deep_dict, wide_output_dim, gfile) ==
  [ feature_configs |-> feature_configs,
    wide_output_dim |-> wide_output_dim,
    wide_deep_dict |-> wide_deep_dict,
    deep_columns |-> EmptyDict,
    wide_columns |-> EmptyDict,
    sequence_columns |-> EmptyDict,
    share_embed_names |-> EmptyDict,
    share_embed_infos |-> EmptyDict,
    deep_share_embed_columns |-> EmptyDict,
    wide_share_embed_columns |-> EmptyDict,
    use_embedding_variable |-> FALSE,
    vocab_size |-> EmptyDict,
    gfile |-> gfile,              \* the files tf.gfile can read: path -> line count
    gfile_reads |-> EmptyDict ]   \* how often each path was read

\* embed_info without max_partitions
embed_info_without_partitions(config) ==
  [ embedding_dim |-> config.embedding_dim,
    combiner |-> config.combiner,
    initializer |-> IF config.has_initializer THEN config.initializer ELSE "None",
    max_partitions |-> 1 ]

\* lines 72-81
embed_info(config) ==
  [ embedding_dim |-> config.embedding_dim,
    combiner |-> config.combiner,
    initializer |-> IF config.has_initializer THEN config.initializer ELSE "None",
    max_partitions |-> config.max_partitions ]

\* lines 68-89, from entry i on: the census of embedding names
RECURSIVE CountSharedFrom(_, _)
CountSharedFrom(p, i) ==
  IF i > Len(p.feature_configs) THEN Ok(p)
  ELSE LET config == p.feature_configs[i]
           embed_name == config.embedding_name
       IN IF ~config.has_embedding_name THEN CountSharedFrom(p, i + 1)
          ELSE IF embed_name \in DOMAIN p.share_embed_names
          THEN IF embed_info(config) # p.share_embed_infos[embed_name]
               THEN Raise(p, "AssertionError")
               ELSE CountSharedFrom(
                      [p EXCEPT !.share_embed_names[embed_name] = @ + 1], i + 1)
          ELSE CountSharedFrom(
                 [p EXCEPT !.share_embed_names = Put(@, embed_name, 1),
                           !.share_embed_infos = Put(@, embed_name, embed_info(config))],
                 i + 1)

\* lines 91-109: drop the names used once, start the per-name column lists
RemoveNotShared(p) ==
  LET not_shared == {x \in DOMAIN p.share_embed_names : p.share_embed_names[x] = 1}
      names == Del(p.share_embed_names, not_shared)
  IN [p EXCEPT !.share_embed_names = names,
               !.share_embed_infos = Del(@, not_shared),
               !.deep_share_embed_columns = [e \in DOMAIN names |-> <<>>],
               !.wide_share_embed_columns = [e \in DOMAIN names |-> <<>>]]

\* is_wide looking the feature up by its first input name only
is_wide_by_input_name(p, config) ==
  IF config.input_names[1] \notin DOMAIN p.wide_deep_dict
  THEN [raised |-> "FeatureKeyError", value |-> FALSE]
  ELSE [raised |-> "None",
        value |-> p.wide_deep_dict[config.input_names[1]] \in {"WIDE", "WIDE_AND_DEEP"}]

\* lines 191-200
is_wide(p, config) ==
  IF FeatureName(config) \notin DOMAIN p.wide_deep_dict
  THEN [raised |-> "FeatureKeyError", value |-> FALSE]
  ELSE [raised |-> "None",
        value |-> p.wide_deep_dict[FeatureName(config)] \in {"WIDE", "WIDE_AND_DEEP"}]

\* lines 202-212
is_deep(p, config) ==
  IF FeatureName(config) \notin DOMAIN p.wide_deep_dict
  THEN [raised |-> "FeatureKeyError", value |-> FALSE]
  ELSE [raised |-> "None",
        value |-> p.wide_deep_dict[FeatureName(config)] \in {"DEEP", "WIDE_AND_DEEP"}]

\* a lookup that reads the file at every use
get_vocab_size_uncached(p, vocab_path) ==
  LET opened == [p EXCEPT !.gfile_reads =
                   Put(@, vocab_path,
                       IF vocab_path \in DOMAIN @ THEN @[vocab_path] + 1 ELSE 1)]
  IN IF vocab_path \notin DOMAIN p.gfile
     THEN [self |-> opened, raised |-> "NotFoundError", value |-> 0]
     ELSE [self |-> [opened EXCEPT !.vocab_size =
                                     Put(@, vocab_path, p.gfile[vocab_path])],
           raised |-> "None", value |-> p.gfile[vocab_path]]

\* lines 214-220
get_vocab_size(p, vocab_path) ==
  IF vocab_path \in DOMAIN p.vocab_size
  THEN [self |-> p, raised |-> "None", value |-> p.vocab_size[vocab_path]]
  ELSE LET opened == [p EXCEPT !.gfile_reads =
                        Put(@, vocab_path,
                            IF vocab_path \in DOMAIN @ THEN @[vocab_path] + 1 ELSE 1)]
       IN IF vocab_path \notin DOMAIN p.gfile
          THEN [self |-> opened, raised |-> "NotFoundError", value |-> 0]
          ELSE [self |-> [opened EXCEPT !.vocab_size =
                                          Put(@, vocab_path, p.gfile[vocab_path])],
                raised |-> "None", value |-> p.gfile[vocab_path]]

\* lines 479-487
build_partitioner(p, max_partitions) ==
  IF max_partitions > 1
  THEN IF p.use_embedding_variable
       THEN [kind |-> "fixed_size_partitioner", n |-> max_partitions]
       ELSE [kind |-> "min_max_variable_partitioner", n |-> max_partitions]
  ELSE [kind |-> "None", n |-> 0]

\* lines 519-521 and 539-541
build_initializer(config) ==
  IF config.has_initializer THEN config.initializer ELSE "None"

\* lines 489-495; the handle carries the Python (0-based) index
add_shared_embedding_column(p, embedding_name, fc, deep) ==
  LET curr_id == Len(p.deep_share_embed_columns[embedding_name])
  IN [self |-> IF deep
               THEN [p EXCEPT !.deep_share_embed_columns[embedding_name] = Append(@, fc)]
               ELSE [p EXCEPT !.wide_share_embed_columns[embedding_name] = Append(@, fc)],
      handle |-> SharedEmbedding(embedding_name, curr_id, "None")]

\* lines 506-529
add_wide_embedding_column(p, fc, config) ==
  IF ~(p.wide_output_dim > 0) THEN Raise(p, "AssertionError")
  ELSE IF config.embedding_name \in DOMAIN p.wide_share_embed_columns
  THEN LET r == add_shared_embedding_column(p, config.embedding_name, fc, FALSE)
       IN Ok([r.self EXCEPT !.wide_columns = Put(@, FeatureName(config), r.handle)])
  ELSE Ok([p EXCEPT !.wide_columns =
             Put(@, FeatureName(config),
                 embedding_column(fc, p.wide_output_dim, "sum", build_initializer(config),
                                  build_partitioner(p, config.max_partitions)))])

\* the deep column stored in deep_columns whatever the feature type
StoreDeepColumnAlways(p, fc, config) ==
  LET q == [p EXCEPT !.deep_columns = Put(@, FeatureName(config), fc)]
  IN IF config.feature_type # "SequenceFeature" THEN q
     ELSE [q EXCEPT !.sequence_columns = Put(@, FeatureName(config), fc)]

\* lines 549-554: where the deep column of a feature is stored
StoreDeepColumn(p, fc, config) ==
  IF config.feature_type # "SequenceFeature"
  THEN [p EXCEPT !.deep_columns = Put(@, FeatureName(config), fc)]
  ELSE [p EXCEPT !.sequence_columns =
          Put(@, FeatureName(config),
              IF config.has_sequence_combiner
              THEN [fc EXCEPT !.sequence_combiner = config.sequence_combiner]
              ELSE fc)]

\* add_deep_embedding_column that never joins a shared group
add_deep_embedding_column_private(p, fc, config) ==
  IF ~(config.embedding_dim > 0) THEN Raise(p, "AssertionError")
  ELSE Ok(StoreDeepColumn(
            p,
            embedding_column(fc, config.embedding_dim, config.combiner,
                             build_initializer(config),
                             build_partitioner(p, config.max_partitions)),
            config))

\* lines 531-554
add_deep_embedding_column(p, fc, config) ==
  IF ~(config.embedding_dim > 0) THEN Raise(p, "AssertionError")
  ELSE IF config.embedding_name \in DOMAIN p.deep_share_embed_columns
  THEN LET r == add_shared_embedding_column(p, config.embedding_name, fc, TRUE)
       IN Ok(StoreDeepColumn(r.self, r.handle, config))
  ELSE Ok(StoreDeepColumn(
            p,
            embedding_column(fc, config.embedding_dim, config.combiner,
                             build_initializer(config),
                             build_partitioner(p, config.max_partitions)),
            config))

\* "if self.is_wide(config): add wide; if self.is_deep(config): add deep"
\* (lines 251-254, 293-296, 330-333, 379-382, 397-400)
AddWideAndDeep(p, fc, config) ==
  LET w == is_wide(p, config)
  IN IF w.raised # "None" THEN Raise(p, w.raised)
     ELSE LET r == IF w.value THEN add_wide_embedding_column(p, fc, config) ELSE Ok(p)
          IN IF r.raised # "None" THEN r
             ELSE LET d == is_deep(r.self, config)
                  IN IF d.raised # "None" THEN Raise(r.self, d.raised)
                     ELSE IF d.value THEN add_deep_embedding_column(r.self, fc, config)
                     ELSE r

(***************************************************************************)
(* Categorical encoder selection.                                          *)
(***************************************************************************)
\* parse_id_feature, lines 232-249: which encoder the Id branch chain picks
id_encoder(config) ==
  IF config.hash_bucket_size > 0 THEN "hash_bucket"
  ELSE IF config.vocab_list # <<>> THEN "vocabulary_list"
  ELSE IF config.vocab_file # "" THEN "vocabulary_file"
  ELSE "identity"

\* parse_tag_feature, lines 266-283
tag_encoder(config) ==
  IF config.has_hash_bucket_size THEN "hash_bucket"
  ELSE IF config.vocab_list # <<>> THEN "vocabulary_list"
  ELSE IF config.vocab_file # "" THEN "vocabulary_file"
  ELSE "identity"

\* parse_sequence_feature, lines 413-431 (sub_feature_type IdFeature)
sequence_encoder(config) ==
  IF config.has_hash_bucket_size THEN "hash_bucket"
  ELSE IF config.vocab_list # <<>> THEN "vocabulary_list"
  ELSE IF config.vocab_file # "" THEN "vocabulary_file"
  ELSE "identity"

\* the categorical column of the chosen encoder on input_names[0]; reading the
\* vocabulary size may raise (lines 234-249, 268-283, 416-431)
categorical_column(p, config, encoder) ==
  LET key == config.input_names[1]
  IN CASE encoder = "hash_bucket" ->
            [self |-> p, raised |-> "None",
             fc |-> categorical_column_with_hash_bucket(key, config.hash_bucket_size)]
       [] encoder = "vocabulary_list" ->
            [self |-> p, raised |-> "None",
             fc |-> categorical_column_with_vocabulary_list(key, config.vocab_list)]
       [] encoder = "vocabulary_file" ->
            LET v == get_vocab_size(p, config.vocab_file)
            IN [self |-> v.self, raised |-> v.raised,
                fc |-> categorical_column_with_vocabulary_file(
                         key, config.vocab_file, v.value)]
       [] OTHER ->
            [self |-> p, raised |-> "None",
             fc |-> categorical_column_with_identity(key, config.num_buckets)]

(***************************************************************************)
(* Boundaries are rationals <<numerator, denominator>>, denominator > 0.   *)
(***************************************************************************)
RatLess(a, b) == a[1] * b[2] < b[1] * a[2]

RECURSIVE InsertSorted(_, _)
InsertSorted(s, x) ==
  IF s = <<>> THEN <<x>>
  ELSE IF RatLess(x, Head(s)) THEN <<x>> \o s
  ELSE <<Head(s)>> \o InsertSorted(Tail(s), x)

\* list.sort() (lines 314, 442)
RECURSIVE Sorted(_)
Sorted(s) == IF s = <<>> THEN <<>> ELSE InsertSorted(Sorted(Tail(s)), Head(s))

\* cut points 1/num_buckets .. 1
synthesized_bounds_from_one(num_buckets) == [k \in 1..num_buckets |-> <<k, num_buckets>>]

\* [x / float(num_buckets) for x in range(0, num_buckets)] (lines 317-319, 445-447)
synthesized_bounds(num_buckets) == [k \in 1..num_buckets |-> <<k - 1, num_buckets>>]

\* lines 311-321 of parse_raw_feature: None is the empty list (only "if bounds" reads it)
raw_bounds(config) ==
  IF config.boundaries # <<>> THEN Sorted(config.boundaries)
  ELSE IF config.num_buckets > 1 /\ config.max_val > config.min_val
  THEN synthesized_bounds(config.num_buckets)
  ELSE <<>>

(***************************************************************************)
(* The parse_* methods.                                                    *)
(***************************************************************************)
\* lines 222-254
parse_id_feature(p, config) ==
  LET c == categorical_column(p, config, id_encoder(config))
  IN IF c.raised # "None" THEN Raise(c.self, c.raised)
     ELSE AddWideAndDeep(c.self, c.fc, config)

\* lines 256-296
parse_tag_feature(p, config) ==
  LET c == categorical_column(p, config, tag_encoder(config))
      tag_fc == IF Len(config.input_names) > 1
                THEN weighted_categorical_column(c.fc, config.input_names[2])
                ELSE IF config.has_kv_separator
                THEN weighted_categorical_column(
                       c.fc, Suffixed(config.input_names[1], "_WEIGHT"))
                ELSE c.fc
  IN IF c.raised # "None" THEN Raise(c.self, c.raised)
     ELSE AddWideAndDeep(c.self, tag_fc, config)

\* lines 298-349
parse_raw_feature(p, config) ==
  LET fc == numeric_column(config.input_names[1], config.raw_input_dim)
      bounds == raw_bounds(config)
      wgt_fc == weighted_categorical_column(
                  categorical_column_with_identity(
                    Suffixed(config.input_names[1], "_raw_proj_id"), config.raw_input_dim),
                  Suffixed(config.input_names[1], "_raw_proj_val"))
  IN IF bounds # <<>> THEN AddWideAndDeep(p, bucketized_column(fc, bounds), config)
     ELSE LET w == is_wide(p, config)
          IN IF w.raised # "None" THEN Raise(p, w.raised)
             ELSE LET r == IF w.value THEN add_wide_embedding_column(p, wgt_fc, config)
                           ELSE Ok(p)
                  IN IF r.raised # "None" THEN r
                     ELSE IF ~is_deep(r.self, config).value THEN r
                     ELSE IF config.embedding_dim > 0
                     THEN add_deep_embedding_column(r.self, wgt_fc, config)
                     ELSE Ok([r.self EXCEPT !.deep_columns =
                                Put(@, FeatureName(config), fc)])

\* lines 351-366
parse_expr_feature(p, config) ==
  LET fc == numeric_column(FeatureName(config), 1)
      w == is_wide(p, config)
  IN IF w.raised # "None" THEN Raise(p, w.raised)
     ELSE LET r == IF w.value THEN add_wide_embedding_column(p, fc, config) ELSE Ok(p)
          IN IF r.raised # "None" THEN r
             ELSE IF is_deep(r.self, config).value
             THEN Ok([r.self EXCEPT !.deep_columns = Put(@, FeatureName(config), fc)])
             ELSE r

\* lines 369-382
parse_combo_feature(p, config) ==
  IF ~(Len(config.input_names) >= 2) THEN Raise(p, "AssertionError")
  ELSE AddWideAndDeep(
         p, crossed_column(config.input_names, config.hash_bucket_size), config)

\* lines 384-400
parse_lookup_feature(p, config) ==
  IF ~config.has_hash_bucket_size THEN Raise(p, "AssertionError")
  ELSE AddWideAndDeep(
         p, categorical_column_with_hash_bucket(FeatureName(config),
                                                config.hash_bucket_size),
         config)

\* lines 432-472: the column of a raw-typed sequence feature
sequence_raw_column(config) ==
  LET fc == sequence_column(numeric_column(config.input_names[1], 1))
      bounds == IF config.boundaries # <<>> THEN Sorted(config.boundaries)
                ELSE IF config.num_buckets > 1 /\ config.max_val > config.min_val
                THEN synthesized_bounds(config.num_buckets)
                ELSE <<>>
  IN IF config.hash_bucket_size > 0
     THEN \* assert sub_feature_type == config.IdFeature, in the RawFeature branch
          [raised |-> "AssertionError", fc |-> fc]
     ELSE IF bounds # <<>>
     THEN [raised |-> "None", fc |-> sequence_column(bucketized_column(fc, bounds))]
     ELSE IF config.embedding_dim > 0
     THEN [raised |-> "None",
           fc |-> sequence_column(weighted_categorical_column(
                    categorical_column_with_identity(
                      Suffixed(config.input_names[1], "_raw_proj_id"),
                      config.raw_input_dim),
                    Suffixed(config.input_names[1], "_raw_proj_val")))]
     ELSE [raised |-> "None",
           fc |-> sequence_numeric_column_with_raw_column(fc, config.sequence_length)]

\* lines 402-477
parse_sequence_feature(p, config) ==
  IF config.sub_feature_type \notin {"IdFeature", "RawFeature"}
  THEN Raise(p, "AssertionError")
  ELSE LET c == IF config.sub_feature_type = "IdFeature"
                THEN LET k == categorical_column(p, config, sequence_encoder(config))
                     IN [self |-> k.self, raised |-> k.raised,
                         fc |-> sequence_column(k.fc)]
                ELSE LET k == sequence_raw_column(config)
                     IN [self |-> p, raised |-> k.raised, fc |-> k.fc]
       IN IF c.raised # "None" THEN Raise(c.self, c.raised)
          ELSE IF config.embedding_dim > 0
          THEN add_deep_embedding_column(c.self, c.fc, config)
          ELSE Ok([c.self EXCEPT !.sequence_columns =
                     Put(@, FeatureName(config), c.fc)])

FeatureTypes ==
  {"IdFeature", "TagFeature", "RawFeature", "ComboFeature", "LookupFeature",
   "SequenceFeature", "ExprFeature"}

\* a dispatch that skips a feature on every error
parse_feature_skipping_all(p, config) ==
  LET r == CASE config.feature_type = "IdFeature" -> parse_id_feature(p, config)
             [] config.feature_type = "TagFeature" -> parse_tag_feature(p, config)
             [] config.feature_type = "RawFeature" -> parse_raw_feature(p, config)
             [] config.feature_type = "ComboFeature" -> parse_combo_feature(p, config)
             [] config.feature_type = "LookupFeature" -> parse_lookup_feature(p, config)
             [] config.feature_type = "SequenceFeature" ->
                  parse_sequence_feature(p, config)
             [] config.feature_type = "ExprFeature" -> parse_expr_feature(p, config)
             [] OTHER -> Raise(p, "AssertionError")
  IN Ok(r.self)

\* lines 113-131: the dispatch on feature_type, and the swallowed FeatureKeyError
parse_feature(p, config) ==
  LET r == CASE config.feature_type = "IdFeature" -> parse_id_feature(p, config)
             [] config.feature_type = "TagFeature" -> parse_tag_feature(p, config)
             [] config.feature_type = "RawFeature" -> parse_raw_feature(p, config)
             [] config.feature_type = "ComboFeature" -> parse_combo_feature(p, config)
             [] config.feature_type = "LookupFeature" -> parse_lookup_feature(p, config)
             [] config.feature_type = "SequenceFeature" ->
                  parse_sequence_feature(p, config)
             [] config.feature_type = "ExprFeature" -> parse_expr_feature(p, config)
             [] OTHER -> Raise(p, "AssertionError")
  IN IF r.raised = "FeatureKeyError" THEN Ok(r.self) ELSE r

(***************************************************************************)
(* Building and resolving the shared columns (lines 133-177).              *)
(***************************************************************************)
\* lines 133-161, for one embedding name
build_shared_embedding(p, embed_name) ==
  LET info == p.share_embed_infos[embed_name]
      initializer == info.initializer
      partitioner == build_partitioner(p, info.max_partitions)
      deep_fcs == shared_embedding_columns(
                    p.deep_share_embed_columns[embed_name], info.embedding_dim,
                    initializer, embed_name, info.combiner, partitioner)
      wide_fcs == IF Len(p.wide_share_embed_columns[embed_name]) = 0
                  THEN p.wide_share_embed_columns[embed_name]
                  ELSE shared_embedding_columns(
                         p.wide_share_embed_columns[embed_name], p.wide_output_dim,
                         initializer, WideCollectionName(embed_name), "sum", partitioner)
  IN [p EXCEPT !.deep_share_embed_columns[embed_name] = deep_fcs,
               !.wide_share_embed_columns[embed_name] = wide_fcs]

RECURSIVE build_shared_embeddings(_, _)
build_shared_embeddings(p, names) ==
  IF names = {} THEN p
  ELSE LET e == CHOOSE x \in names : TRUE
       IN build_shared_embeddings(build_shared_embedding(p, e), names \ {e})

\* lines 497-504: list[embed_id], an IndexError when the index is out of range;
\* the element (one object, aliased by the list) gets the handle's sequence_combiner
get_shared_embedding_column(p, fc_handle, deep) ==
  LET embed_name == fc_handle.embedding_name
      embed_id == fc_handle.index
      fcs == IF deep THEN p.deep_share_embed_columns[embed_name]
             ELSE p.wide_share_embed_columns[embed_name]
  IN IF embed_id >= Len(fcs)
     THEN [self |-> p, raised |-> "IndexError", fc |-> fc_handle]
     ELSE LET tmp == [fcs[embed_id + 1] EXCEPT
                        !.sequence_combiner = fc_handle.sequence_combiner]
          IN [self |-> IF deep
                       THEN [p EXCEPT !.deep_share_embed_columns[embed_name][embed_id + 1]
                                        = tmp]
                       ELSE [p EXCEPT !.wide_share_embed_columns[embed_name][embed_id + 1]
                                        = tmp],
              raised |-> "None", fc |-> tmp]

\* lines 163-177: one of the three loops, over the keys still to visit;
\* table is "deep_columns", "wide_columns" or "sequence_columns"
RECURSIVE resolve_columns(_, _, _)
resolve_columns(p, table, keys) ==
  IF keys = {} THEN Ok(p)
  ELSE LET fc_name == CHOOSE x \in keys : TRUE
           fc == p[table][fc_name]
       IN IF fc.kind # "SharedEmbedding" THEN resolve_columns(p, table, keys \ {fc_name})
          ELSE LET r == get_shared_embedding_column(p, fc, table # "wide_columns")
               IN IF r.raised # "None" THEN Raise(r.self, r.raised)
                  ELSE resolve_columns(
                         [r.self EXCEPT ![table] = Put(@, fc_name, r.fc)],
                         table, keys \ {fc_name})

\* lines 133-177
build_and_resolve(p) ==
  LET b == build_shared_embeddings(p, DOMAIN p.share_embed_names)
      d == resolve_columns(b, "deep_columns", DOMAIN b.deep_columns)
      w == IF d.raised # "None" THEN d
           ELSE resolve_columns(d.self, "wide_columns", DOMAIN d.self.wide_columns)
  IN IF w.raised # "None" THEN w
     ELSE resolve_columns(w.self, "sequence_columns", DOMAIN w.self.sequence_columns)

(***************************************************************************)
(* The constructor as a process.                                           *)
(***************************************************************************)
Idle == "idle"

\* lines 68-109
CountShared ==
  /\ pc = "count"
  /\ LET r == CountSharedFrom(parser, 1)
     IN IF r.raised # "None"
        THEN /\ parser' = r.self
             /\ pc' = "failed"
             /\ raised' = r.raised
        ELSE /\ parser' = RemoveNotShared(r.self)
             /\ pc' = "classify"
             /\ raised' = raised
  /\ idx' = 1
  /\ UNCHANGED <<inputVars, pureVars>>

\* lines 111-131, one catalogue entry
ParseFeature ==
  /\ pc = "classify"
  /\ idx <= Len(parser.feature_configs)
  /\ LET r == parse_feature(parser, parser.feature_configs[idx])
     IN /\ parser' = r.self
        /\ IF r.raised # "None"
           THEN pc' = "failed" /\ raised' = r.raised /\ idx' = idx
           ELSE pc' = pc /\ raised' = raised /\ idx' = idx + 1
  /\ UNCHANGED <<inputVars, pureVars>>

\* lines 133-177
BuildShared ==
  /\ pc = "classify"
  /\ idx > Len(parser.feature_configs)
  /\ LET r == build_and_resolve(parser)
     IN /\ parser' = r.self
        /\ IF r.raised # "None"
           THEN pc' = "failed" /\ raised' = r.raised
           ELSE pc' = "done" /\ raised' = raised
  /\ UNCHANGED <<idx, inputVars, pureVars>>

(***************************************************************************)
(* Catalogues the registry is constructed from.                            *)
(***************************************************************************)
Override(base, o) == [k \in DOMAIN base |-> IF k \in DOMAIN o THEN o[k] ELSE base[k]]

\* Settings of a catalogue entry: the fields that differ from DefaultConfig
\* (the input name is set by the entry's position).
IdOption == [feature_type |-> "IdFeature", embedding_dim |-> 8]

NamedOption(o) == o @@ [has_feature_name |-> TRUE, feature_name |-> "fn"]

SharedOption(o) == o @@ [has_embedding_name |-> TRUE, embedding_name |-> "e1"]

\* one entry of every feature type, with and without feature_name and embedding_dim
ClassifyOptions ==
  { IdOption,
    NamedOption(IdOption),
    [feature_type |-> "TagFeature", embedding_dim |-> 0, has_kv_separator |-> TRUE,
     has_hash_bucket_size |-> TRUE, hash_bucket_size |-> 10],
    [feature_type |-> "RawFeature", embedding_dim |-> 0],
    [feature_type |-> "RawFeature", embedding_dim |-> 0, boundaries |-> <<<<1, 2>>>>],
    [feature_type |-> "ComboFeature", embedding_dim |-> 8, input_names |-> <<"f1", "f4">>,
     hash_bucket_size |-> 10],
    [feature_type |-> "LookupFeature", embedding_dim |-> 8,
     has_hash_bucket_size |-> TRUE, hash_bucket_size |-> 10],
    NamedOption([feature_type |-> "SequenceFeature", embedding_dim |-> 8]),
    [feature_type |-> "SequenceFeature", sub_feature_type |-> "RawFeature",
     embedding_dim |-> 0],
    NamedOption([feature_type |-> "ExprFeature"]) }

\* members of the embedding group "e1" with one embedding_info, and an outsider
ShareOptions ==
  { IdOption,
    SharedOption(IdOption),
    SharedOption([feature_type |-> "TagFeature", embedding_dim |-> 8,
                  has_hash_bucket_size |-> TRUE, hash_bucket_size |-> 10]),
    SharedOption([feature_type |-> "RawFeature", embedding_dim |-> 8]),
    SharedOption([feature_type |-> "SequenceFeature", embedding_dim |-> 8,
                  has_sequence_combiner |-> TRUE, sequence_combiner |-> "attention"]),
    SharedOption([feature_type |-> "ExprFeature", embedding_dim |-> 8]) }

\* members of "e1" that differ in one field of embedding_info, and of "e2"
InfoOptions ==
  { IdOption,
    SharedOption(IdOption),
    SharedOption([IdOption EXCEPT !.embedding_dim = 4]),
    SharedOption(IdOption @@ [combiner |-> "sum"]),
    SharedOption(IdOption @@ [has_initializer |-> TRUE, initializer |-> "init"]),
    SharedOption(IdOption @@ [max_partitions |-> 2]),
    IdOption @@ [has_embedding_name |-> TRUE, embedding_name |-> "e2"] }

\* entry i reads input field FieldNames[i]
ConfigAt(i, o) ==
  LET c == Override(DefaultConfig, o)
  IN [c EXCEPT !.input_names = [@ EXCEPT ![1] = FieldNames[i]]]

Catalogues(options) ==
  UNION { { [i \in 1..n |-> ConfigAt(i, os[i])] : os \in [1..n -> options] }
          : n \in 1..MaxFeatures }

WideOrDeep == {"WIDE", "DEEP", "WIDE_AND_DEEP"}

\* the wide/deep maps over (a subset of) the catalogue's feature names
WideDeepDicts(catalogue) ==
  UNION { [D -> WideOrDeep]
          : D \in SUBSET {FeatureName(catalogue[i]) : i \in DOMAIN catalogue} }

GFile == [x \in {"vocab.txt"} |-> 3]

InitRegistry(options, wide_output_dims) ==
  /\ \E catalogue \in Catalogues(options) :
       \E wide_deep_dict \in WideDeepDicts(catalogue) :
         \E wide_output_dim \in wide_output_dims :
           parser = NewParser(catalogue, wide_deep_dict, wide_output_dim, GFile)
  /\ pc = "count"
  /\ idx = 1
  /\ raised = "None"
  /\ input = Idle /\ field_dict = Idle /\ parsed_dict = Idle /\ calls = 0
  /\ call = Idle /\ ret = Idle

Init == InitRegistry(ClassifyOptions, {8})

InitShare == InitRegistry(ShareOptions, {8})

InitInfo == InitRegistry(InfoOptions, {-1, 8})

\* Raw and raw-typed Sequence features that are bucketized by num_buckets and a
\* range, by explicit (unsorted) boundaries, or not at all
BoundsOptions ==
  { [feature_type |-> "RawFeature", embedding_dim |-> 8, num_buckets |-> 2,
     min_val |-> 0, max_val |-> 1],
    [feature_type |-> "RawFeature", embedding_dim |-> 8, num_buckets |-> 3,
     min_val |-> 0, max_val |-> 5],
    [feature_type |-> "RawFeature", embedding_dim |-> 8, num_buckets |-> 3],
    [feature_type |-> "RawFeature", embedding_dim |-> 8, num_buckets |-> 3,
     min_val |-> 0, max_val |-> 5, boundaries |-> << <<3, 4>>, <<1, 4>> >>],
    [feature_type |-> "SequenceFeature", sub_feature_type |-> "RawFeature",
     embedding_dim |-> 8, num_buckets |-> 2, min_val |-> 0, max_val |-> 1],
    [feature_type |-> "SequenceFeature", sub_feature_type |-> "RawFeature",
     embedding_dim |-> 0, num_buckets |-> 3, min_val |-> 0, max_val |-> 5],
    [feature_type |-> "SequenceFeature", sub_feature_type |-> "RawFeature",
     embedding_dim |-> 0, num_buckets |-> 3, min_val |-> 0, max_val |-> 5,
     boundaries |-> << <<3, 4>>, <<1, 4>> >>] }

InitBounds == InitRegistry(BoundsOptions, {8})

\* features that need an embedding, with embedding_dim unset and set, and a
\* Raw feature without buckets, which needs none
DimOptions ==
  { [feature_type |-> "IdFeature", embedding_dim |-> 0],
    IdOption,
    [feature_type |-> "TagFeature", embedding_dim |-> 0,
     has_hash_bucket_size |-> TRUE, hash_bucket_size |-> 10],
    [feature_type |-> "ComboFeature", embedding_dim |-> 0, input_names |-> <<"f1", "f4">>,
     hash_bucket_size |-> 10],
    [feature_type |-> "LookupFeature", embedding_dim |-> -1,
     has_hash_bucket_size |-> TRUE, hash_bucket_size |-> 10],
    [feature_type |-> "RawFeature", embedding_dim |-> 0, boundaries |-> <<<<1, 2>>>>],
    [feature_type |-> "RawFeature", embedding_dim |-> 0, num_buckets |-> 2,
     min_val |-> 0, max_val |-> 1],
    [feature_type |-> "RawFeature", embedding_dim |-> 0] }

InitDim == InitRegistry(DimOptions, {8})

\* Id, Tag and Sequence features that read a vocabulary file, one of them a
\* file that cannot be read, and an Id feature without a file
VocabOptions ==
  { IdOption,
    [feature_type |-> "IdFeature", embedding_dim |-> 8, vocab_file |-> "vocab.txt"],
    [feature_type |-> "TagFeature", embedding_dim |-> 8, vocab_file |-> "vocab.txt"],
    [feature_type |-> "SequenceFeature", embedding_dim |-> 8, vocab_file |-> "vocab.txt"],
    [feature_type |-> "IdFeature", embedding_dim |-> 8, vocab_file |-> "missing.txt"] }

InitVocab == InitRegistry(VocabOptions, {8})

Next == CountShared \/ ParseFeature \/ BuildShared

\* construction from a catalogue of bucketized numeric features
SpecBounds == InitBounds /\ [][Next]_vars

\* construction from a catalogue of features with and without embedding_dim
SpecDim == InitDim /\ [][Next]_vars

\* construction from a catalogue of features with vocabulary files
SpecVocab == InitVocab /\ [][Next]_vars

\* construction from a catalogue of all feature types
Spec == Init /\ [][Next]_vars

\* construction from a catalogue with a shared-embedding group
SpecShare == InitShare /\ [][Next]_vars

\* construction from a catalogue whose group members may disagree on embedding_info
SpecInfo == InitInfo /\ [][Next]_vars

(***************************************************************************)
(* Encoder selection as a function of the configuration.                   *)
(***************************************************************************)
EncoderConfigs ==
  { Override(DefaultConfig,
             [feature_type |-> t, has_hash_bucket_size |-> h[1], hash_bucket_size |-> h[2],
              vocab_list |-> vl, vocab_file |-> vf, num_buckets |-> nb])
    : t \in {"IdFeature", "TagFeature", "SequenceFeature"},
      h \in {<<FALSE, 0>>, <<TRUE, 0>>, <<TRUE, 10>>},
      vl \in {<<>>, <<"a", "b">>},
      vf \in {"", "vocab.txt"},
      nb \in {0, 5} }

\* the encoder the registry picks for an Id, Tag or Id-typed Sequence feature
encoder_of(config) ==
  CASE config.feature_type = "IdFeature" -> id_encoder(config)
    [] config.feature_type = "TagFeature" -> tag_encoder(config)
    [] OTHER -> sequence_encoder(config)

InitEncoder ==
  /\ call \in {[fn |-> "encoder", config |-> c] : c \in EncoderConfigs}
  /\ ret = Idle
  /\ pc = "call"
  /\ parser = Idle /\ idx = 0 /\ raised = "None"
  /\ input = Idle /\ field_dict = Idle /\ parsed_dict = Idle /\ calls = 0

SelectEncoder ==
  /\ pc = "call"
  /\ call.fn = "encoder"
  /\ ret' = encoder_of(call.config)
  /\ pc' = "return"
  /\ UNCHANGED <<call, parser, idx, raised, inputVars>>

SpecEncoder == InitEncoder /\ [][SelectEncoder]_vars

(***************************************************************************)
(* Properties of the registry.                                             *)
(***************************************************************************)
\* the state is one of the constructor's
Registry == pc \in {"count", "classify", "done", "failed"}

NumFeatures == Len(parser.feature_configs)

\* the key a feature is registered under: feature_name when set, else the
\* first input name
KeyOf(i) ==
  IF parser.feature_configs[i].has_feature_name
  THEN parser.feature_configs[i].feature_name
  ELSE parser.feature_configs[i].input_names[1]

TypeOf(i) == parser.feature_configs[i].feature_type

DistinctNames == \A i, j \in 1..NumFeatures : i # j => KeyOf(i) # KeyOf(j)

InMap(i) == KeyOf(i) \in DOMAIN parser.wide_deep_dict

MappedTo(i, sides) == InMap(i) /\ parser.wide_deep_dict[KeyOf(i)] \in sides

MembersOf(e) ==
  {i \in 1..NumFeatures : /\ parser.feature_configs[i].has_embedding_name
                          /\ parser.feature_configs[i].embedding_name = e}

EmbeddingNames ==
  {parser.feature_configs[i].embedding_name : i \in
     {j \in 1..NumFeatures : parser.feature_configs[j].has_embedding_name}}

TablesEmpty ==
  /\ parser.wide_columns = EmptyDict
  /\ parser.deep_columns = EmptyDict
  /\ parser.sequence_columns = EmptyDict

\* two features carry the same embedding_name and differ in embedding_dim,
\* combiner, initializer or max_partitions
InfoMismatch ==
  \E i, j \in 1..NumFeatures :
    LET a == parser.feature_configs[i]
        b == parser.feature_configs[j]
    IN /\ i # j
       /\ a.has_embedding_name /\ b.has_embedding_name
       /\ a.embedding_name = b.embedding_name
       /\ \/ a.embedding_dim # b.embedding_dim
          \/ a.combiner # b.combiner
          \/ a.has_initializer # b.has_initializer
          \/ (a.has_initializer /\ a.initializer # b.initializer)
          \/ a.max_partitions # b.max_partitions

\* C1: a catalogue in which two features share an embedding_name but differ in
\* embedding_dim, combiner, initializer or max_partitions never gets past the
\* census of embedding names: construction fails there with an assertion error,
\* and at that moment wide, deep and sequence tables are all still empty.
C1_MismatchFailsBeforeClassification ==
  (Registry /\ InfoMismatch) =>
     /\ pc \in {"count", "failed"}
     /\ pc = "failed" => (raised = "AssertionError" /\ TablesEmpty)

C1_Witness == Registry /\ InfoMismatch /\ pc = "failed" /\ TablesEmpty

\* a feature whose deep column is an embedding of a categorical column
TakesEmbedding(i) ==
  LET c == parser.feature_configs[i]
  IN \/ c.feature_type \in {"IdFeature", "TagFeature", "ComboFeature", "LookupFeature"}
     \/ /\ c.feature_type = "RawFeature"
        /\ (c.boundaries # <<>> \/ (c.num_buckets > 1 /\ c.max_val > c.min_val)
            \/ c.embedding_dim > 0)

DeepMembersOf(e) ==
  {i \in MembersOf(e) : TypeOf(i) # "SequenceFeature"
                        /\ MappedTo(i, {"DEEP", "WIDE_AND_DEEP"})}

IsSharedColumnOf(fc, e) ==
  /\ fc \in Range(parser.deep_share_embed_columns[e])
  /\ fc.kind = "shared_embedding"
  /\ fc.shared_embedding_collection_name = e
  /\ fc.dimension = parser.share_embed_infos[e].embedding_dim
  /\ fc.combiner = parser.share_embed_infos[e].combiner
  /\ fc.initializer = parser.share_embed_infos[e].initializer
  /\ fc.partitioner = build_partitioner(parser, parser.share_embed_infos[e].max_partitions)

\* C2 as stated: when two or more deep-side features carry the same
\* embedding_name (with identical embedding_info), after construction the
\* deep_columns entry of each of them is an element of the shared-column list
\* of that name.
C2_Original ==
  (Registry /\ pc = "done") =>
     \A e \in EmbeddingNames :
       Cardinality(DeepMembersOf(e)) >= 2 =>
         \A i \in DeepMembersOf(e) :
           /\ KeyOf(i) \in DOMAIN parser.deep_columns
           /\ e \in DOMAIN parser.deep_share_embed_columns
           /\ parser.deep_columns[KeyOf(i)] \in Range(parser.deep_share_embed_columns[e])

\* C2 (amended): with pairwise distinct feature names, when two or more
\* deep-side features carry the same embedding_name (with identical
\* embedding_info), after construction the deep_columns entry of each of them
\* that takes an embedding column (Id, Tag, Combo, Lookup, and Raw when
\* bucketized or with embedding_dim > 0) is an element of the shared-column list
\* built for that name with the group's embedding_dim, combiner, initializer and
\* partitioner, and none of these has a private embedding column.  Expression
\* features keep a plain numeric column.
C2_SharedDeepColumns ==
  (Registry /\ pc = "done" /\ DistinctNames) =>
     \A e \in EmbeddingNames :
       Cardinality(DeepMembersOf(e)) >= 2 =>
         \A i \in DeepMembersOf(e) :
           TakesEmbedding(i) =>
             /\ KeyOf(i) \in DOMAIN parser.deep_columns
             /\ e \in DOMAIN parser.deep_share_embed_columns
             /\ IsSharedColumnOf(parser.deep_columns[KeyOf(i)], e)

C2_Witness ==
  /\ Registry /\ pc = "done" /\ DistinctNames
  /\ \E i, j \in DeepMembersOf("e1") :
       /\ i # j /\ TakesEmbedding(i) /\ TakesEmbedding(j)
       /\ TypeOf(i) # TypeOf(j)
       /\ IsSharedColumnOf(parser.deep_columns[KeyOf(i)], "e1")
       /\ IsSharedColumnOf(parser.deep_columns[KeyOf(j)], "e1")
       /\ parser.deep_columns[KeyOf(i)] # parser.deep_columns[KeyOf(j)]

\* the members of a group the classification loop did not skip
RegisteredIn(e) ==
  {i \in MembersOf(e) : TypeOf(i) = "SequenceFeature" \/ InMap(i)}

ColumnsOf(i) ==
  {parser[t][KeyOf(i)] :
     t \in {t \in {"wide_columns", "deep_columns", "sequence_columns"} :
              KeyOf(i) \in DOMAIN parser[t]}}

\* C3 as stated: after classification every embedding_name kept as a shared
\* group has at least two registered features, and a name left with exactly one
\* registered feature is not shared: that feature has a private column.
\* (Stated for catalogues in which every kept group has a deep-side column.)
C3_Original ==
  (/\ Registry /\ pc = "done" /\ DistinctNames
   /\ \A e \in DOMAIN parser.share_embed_names :
        parser.deep_share_embed_columns[e] # <<>>) =>
     /\ \A e \in DOMAIN parser.share_embed_names : Cardinality(RegisteredIn(e)) >= 2
     /\ \A e \in EmbeddingNames :
          Cardinality(RegisteredIn(e)) = 1 =>
            \A i \in RegisteredIn(e) : \A fc \in ColumnsOf(i) : fc.kind # "shared_embedding"

\* C4 as stated: a feature of any type whose name is absent from the wide/deep
\* map does not abort construction and contributes no entry to wide_columns,
\* deep_columns or sequence_columns, and every other feature is registered.
C4_Original ==
  /\ (Registry /\ pc = "failed" /\ idx \in 1..NumFeatures) => InMap(idx)
  /\ (Registry /\ pc = "done" /\ DistinctNames) =>
       \A i \in 1..NumFeatures :
         IF InMap(i) THEN ColumnsOf(i) # {} ELSE ColumnsOf(i) = {}

\* C5: with pairwise distinct feature names, no feature name is a key of
\* sequence_columns and at the same time of wide_columns or deep_columns
\* (a non-sequence feature may be a key of both wide_columns and deep_columns).
C5_SequenceApartFromWideDeep ==
  (Registry /\ DistinctNames) =>
     (DOMAIN parser.sequence_columns)
       \cap ((DOMAIN parser.wide_columns) \cup (DOMAIN parser.deep_columns)) = {}

C5_Witness ==
  /\ Registry /\ pc = "done" /\ DistinctNames
  /\ DOMAIN parser.sequence_columns # {}
  /\ (DOMAIN parser.wide_columns) \cap (DOMAIN parser.deep_columns) # {}

\* C6 as stated: for Id, Tag and Id-typed Sequence features the encoder is the
\* hash encoder whenever hash_bucket_size is set, else vocab_list if non-empty,
\* else vocab_file if set, else identity.
C6_Original ==
  (pc = "return" /\ call.fn = "encoder") =>
     ret = IF call.config.has_hash_bucket_size THEN "hash_bucket"
           ELSE IF call.config.vocab_list # <<>> THEN "vocabulary_list"
           ELSE IF call.config.vocab_file # "" THEN "vocabulary_file"
           ELSE "identity"

\* C7: after construction, every Id, Tag, Combo, Lookup, Raw and Expression
\* feature whose name (feature_name when set, else the first input name) is in
\* the wide/deep map is a key of wide_columns iff it is mapped to WIDE or
\* WIDE_AND_DEEP, and a key of deep_columns iff mapped to DEEP or WIDE_AND_DEEP.
C7_WideDeepMembership ==
  (Registry /\ pc = "done") =>
     \A i \in 1..NumFeatures :
       (TypeOf(i) # "SequenceFeature" /\ InMap(i)) =>
          /\ KeyOf(i) \in DOMAIN parser.wide_columns
               <=> MappedTo(i, {"WIDE", "WIDE_AND_DEEP"})
          /\ KeyOf(i) \in DOMAIN parser.deep_columns
               <=> MappedTo(i, {"DEEP", "WIDE_AND_DEEP"})

C7_Witness ==
  /\ Registry /\ pc = "done"
  /\ \E i, j \in 1..NumFeatures :
       /\ TypeOf(i) # "SequenceFeature" /\ parser.feature_configs[i].has_feature_name
       /\ MappedTo(i, {"WIDE_AND_DEEP"})
       /\ KeyOf(i) \in (DOMAIN parser.wide_columns) \cap (DOMAIN parser.deep_columns)
       /\ TypeOf(j) # "SequenceFeature" /\ ~parser.feature_configs[j].has_feature_name
       /\ MappedTo(j, {"WIDE"})
       /\ KeyOf(j) \in (DOMAIN parser.wide_columns) \ (DOMAIN parser.deep_columns)

(***************************************************************************)
(* Strings are sequences of characters; tf.string_split, tf.reshape and    *)
(* tf.string_to_number as the preprocessor uses them.                      *)
(***************************************************************************)
MaxBatch == 2   \* rows of a batch
MaxTags == 3    \* tokens of one field, over the rows of a batch
MaxCalls == 2   \* calls of Input._preprocess on one Input object

Digits == {"0", "1", "2", "3", "4", "5", "6", "7", "8", "9"}

DigitValue(c) ==
  CASE c = "0" -> 0 [] c = "1" -> 1 [] c = "2" -> 2 [] c = "3" -> 3 [] c = "4" -> 4
    [] c = "5" -> 5 [] c = "6" -> 6 [] c = "7" -> 7 [] c = "8" -> 8 [] OTHER -> 9

\* the pieces of s between occurrences of sep, empty pieces included
RECURSIVE SplitFrom(_, _, _, _)
SplitFrom(s, sep, i, piece) ==
  IF i > Len(s) THEN <<piece>>
  ELSE IF s[i] = sep THEN <<piece>> \o SplitFrom(s, sep, i + 1, <<>>)
  ELSE SplitFrom(s, sep, i + 1, Append(piece, s[i]))

\* tf.string_split on one string
split_string(s, sep, skip_empty) ==
  LET pieces == SplitFrom(s, sep, 1, <<>>)
  IN IF skip_empty THEN SelectSeq(pieces, LAMBDA x : x # <<>>) ELSE pieces

RECURSIVE Flatten(_)
Flatten(ss) == IF ss = <<>> THEN <<>> ELSE Head(ss) \o Flatten(Tail(ss))

\* value bound to a name for the rest of a computation
With(value, Rest(_)) == Rest(value)

Max(a, b) == IF a > b THEN a ELSE b

RECURSIVE MaxOf(_)
MaxOf(ns) == IF ns = <<>> THEN 0 ELSE Max(Head(ns), MaxOf(Tail(ns)))

\* tf.string_split on a 1-D string tensor: a SparseTensor, rows in order,
\* positions 0..k-1 within a row, dense_shape (rows, longest row)
string_split(field, sep, skip_empty) ==
  With([i \in DOMAIN field |-> split_string(field[i], sep, skip_empty)], LAMBDA rows :
    [ indices |-> Flatten([i \in DOMAIN rows |->
                             [j \in DOMAIN rows[i] |-> <<i - 1, j - 1>>]]),
      values |-> Flatten(rows),
      dense_shape |-> <<Len(field), MaxOf([i \in DOMAIN rows |-> Len(rows[i])])>> ])

IsNumber(s) == s # <<>> /\ \A i \in DOMAIN s : s[i] \in Digits

RECURSIVE NumberOf(_)
NumberOf(s) ==
  IF s = <<>> THEN 0 ELSE 10 * NumberOf(SubSeq(s, 1, Len(s) - 1)) + DigitValue(s[Len(s)])

\* tf.string_to_number on a 1-D tensor: an error unless every string is a number
string_to_number(strings) ==
  IF \A i \in DOMAIN strings : IsNumber(strings[i])
  THEN [raised |-> "None", values |-> [i \in DOMAIN strings |-> NumberOf(strings[i])]]
  ELSE [raised |-> "InvalidArgumentError", values |-> <<>>]

\* tf.reshape(values, [-1, 2]): an error unless the number of values is even
reshape_pairs(values) ==
  IF Len(values) % 2 # 0
  THEN [raised |-> "InvalidArgumentError", rows |-> <<>>]
  ELSE [raised |-> "None",
        rows |-> [i \in 1..(Len(values) \div 2) |-> <<values[2 * i - 1], values[2 * i]>>]]

\* tf.sparse.SparseTensor(indices, values, dense_shape); indices and values
\* of different length make an invalid tensor (rejected when it is read)
SparseTensor(indices, values, dense_shape) ==
  [ raised |-> IF Len(indices) = Len(values) THEN "None" ELSE "InvalidArgumentError",
    tensor |-> [indices |-> indices, values |-> values, dense_shape |-> dense_shape] ]

\* a dense tensor of field_dict or parsed_dict: its dtype, its shape and its
\* values in row-major order
Tensor(dtype, shape, values) == [dtype |-> dtype, shape |-> shape, values |-> values]

\* a field of shape [batch_size]
Field(dtype, values) == Tensor(dtype, <<Len(values)>>, values)

(***************************************************************************)
(* Input._preprocess, TagFeature branch (input.py lines 294-349), on a     *)
(* batch whose fields are 1-D string tensors.                              *)
(***************************************************************************)
Separator == ","
KvSeparator == ":"

\* the first failure among the steps, in evaluation order
FirstRaised(rs) ==
  IF \E i \in DOMAIN rs : rs[i] # "None"
  THEN rs[CHOOSE i \in DOMAIN rs : rs[i] # "None" /\ \A j \in 1..(i - 1) : rs[j] = "None"]
  ELSE "None"

Reverse(s) == [i \in DOMAIN s |-> s[Len(s) + 1 - i]]

\* a kv branch that emits the weights in the opposite order to the keys
tag_kv_split_unaligned(fc, split) ==
  With(reshape_pairs(
         Flatten([i \in DOMAIN split.values |->
                    split_string(split.values[i], fc.kv_separator, FALSE)])),
       LAMBDA tmp_kvs :
  With(string_to_number([i \in DOMAIN tmp_kvs.rows |-> tmp_kvs.rows[i][2]]),
       LAMBDA tmp_vs :
    [ raised |-> FirstRaised(<<tmp_kvs.raised, tmp_vs.raised>>),
      keys |-> [split EXCEPT !.values = [i \in DOMAIN tmp_kvs.rows |-> tmp_kvs.rows[i][1]]],
      weights |-> [split EXCEPT !.values = Reverse(tmp_vs.values)] ]))

\* lines 305-319: the key and weight containers of the kv branch
tag_kv_split(fc, split) ==
  With(reshape_pairs(
         Flatten([i \in DOMAIN split.values |->
                    split_string(split.values[i], fc.kv_separator, FALSE)])),
       LAMBDA tmp_kvs :
  With([i \in DOMAIN tmp_kvs.rows |-> tmp_kvs.rows[i][1]], LAMBDA tmp_ks :
  With(string_to_number([i \in DOMAIN tmp_kvs.rows |-> tmp_kvs.rows[i][2]]),
       LAMBDA tmp_vs :
  With(SparseTensor(split.indices, tmp_ks, split.dense_shape), LAMBDA keys :
  With(SparseTensor(split.indices, tmp_vs.values, split.dense_shape), LAMBDA weights :
    [ raised |-> FirstRaised(<<tmp_kvs.raised, tmp_vs.raised, keys.raised,
                               weights.raised>>),
      keys |-> keys.tensor, weights |-> weights.tensor ])))))

\* lines 320-327: tag values of a feature without hash_bucket_size become int32
tag_values_to_int(fc, tensor) ==
  IF fc.has_hash_bucket_size THEN [raised |-> "None", tensor |-> tensor]
  ELSE With(string_to_number(tensor.values), LAMBDA vals :
         [raised |-> vals.raised, tensor |-> [tensor EXCEPT !.values = vals.values]])

\* parallel weights without the tf.assert_equal guard
tag_parallel_weights_unchecked(fc, field, tags) ==
  With(string_split(field, fc.separator, TRUE), LAMBDA split :
  With(string_to_number(split.values), LAMBDA field_vals :
    [ raised |-> field_vals.raised,
      tensor |-> [split EXCEPT !.values = field_vals.values] ]))

\* lines 328-344: the parallel weights of the second input, guarded by
\* tf.assert_equal on the two value counts
tag_parallel_weights(fc, field, tags) ==
  With(string_split(field, fc.separator, TRUE), LAMBDA split :
  With(string_to_number(split.values), LAMBDA field_vals :
  With(IF Len(field_vals.values) = Len(tags.values) THEN "None"
       ELSE "InvalidArgumentError", LAMBDA assert_op :
    [ raised |-> FirstRaised(<<field_vals.raised, assert_op>>),
      tensor |-> [split EXCEPT !.values = field_vals.values] ])))

\* lines 294-344: self is the Input object, whose _appended_fields grows while
\* the branch is traced; raised is what evaluating the batch ends with
preprocess_tag(self, fc, fields, parsed) ==
  With(fc.input_names[1], LAMBDA input_0 :
  With(string_split(fields[input_0].values, fc.separator, TRUE), LAMBDA split :
  With(IF fc.has_kv_separator THEN tag_kv_split(fc, split)
       ELSE [raised |-> "None", keys |-> split, weights |-> split], LAMBDA kv :
  With(tag_values_to_int(fc, kv.keys), LAMBDA tags :
  With(IF Len(fc.input_names) > 1
       THEN tag_parallel_weights(fc, fields[fc.input_names[2]].values, tags.tensor)
       ELSE [raised |-> "None", tensor |-> split], LAMBDA wgt :
  With(Put(parsed, input_0, tags.tensor), LAMBDA with_tags :
  With(IF fc.has_kv_separator
       THEN Put(with_tags, Suffixed(input_0, "_WEIGHT"), kv.weights)
       ELSE with_tags, LAMBDA with_kv :
    [ self |-> IF fc.has_kv_separator
               THEN [self EXCEPT !.appended_fields =
                       Append(@, Suffixed(input_0, "_WEIGHT"))]
               ELSE self,
      raised |-> FirstRaised(<<kv.raised, tags.raised, wgt.raised>>),
      parsed_dict |-> IF Len(fc.input_names) > 1
                      THEN Put(with_kv, fc.input_names[2], wgt.tensor)
                      ELSE with_kv ])))))))

(***************************************************************************)
(* Input._lookup_preprocess (input.py lines 601-663) on a batch: the key   *)
(* field and the map field are string fields of shape [batch_size].        *)
(***************************************************************************)
\* tf.reduce_max of an empty int64 tensor is the lowest int64, -2^63; the
\* model's integers are narrower and hold the lowest of theirs in its place
Int64Lowest == -2147483647

reduce_max(ns) == IF ns = <<>> THEN Int64Lowest ELSE MaxOf(ns)

\* tf.boolean_mask on one row
RECURSIVE boolean_mask(_, _)
boolean_mask(xs, mask) ==
  IF xs = <<>> THEN <<>>
  ELSE IF Head(mask) THEN <<Head(xs)>> \o boolean_mask(Tail(xs), Tail(mask))
  ELSE boolean_mask(Tail(xs), Tail(mask))

\* a _lookup that selects every entry of the map, whatever its key
lookup_unfiltered(fc, one_key, one_map) ==
  With(fc.lookup_max_sel_elem_num, LAMBDA max_sel_num :
  With(split_string(one_map, fc.separator, TRUE), LAMBDA kv_map :
  With(reshape_pairs(Flatten([i \in DOMAIN kv_map |->
                                split_string(kv_map[i], fc.kv_separator, TRUE)])),
       LAMBDA kvs :
  With(Len(kvs.rows), LAMBDA n :
    [ raised |-> FirstRaised(<<kvs.raised,
                               IF max_sel_num - n < 0 THEN "InvalidArgumentError"
                               ELSE "None">>),
      sel_vals |-> [i \in 1..max_sel_num |-> IF i <= n THEN kvs.rows[i][2] ELSE <<>>],
      len_msk |-> [i \in 1..max_sel_num |-> i - 1 < n],
      indices |-> [i \in 1..max_sel_num |-> IF i - 1 < n THEN i - 1 ELSE 0] ]))))

\* lines 614-632: _lookup with pad=True on one example
lookup(fc, one_key, one_map) ==
  With(fc.lookup_max_sel_elem_num, LAMBDA max_sel_num :
  With(split_string(one_map, fc.separator, TRUE), LAMBDA kv_map :
  With(reshape_pairs(Flatten([i \in DOMAIN kv_map |->
                                split_string(kv_map[i], fc.kv_separator, TRUE)])),
       LAMBDA kvs :
  With(SelectSeq(kvs.rows, LAMBDA kv : kv[1] = one_key), LAMBDA sel :
  With(Len(sel), LAMBDA n :
    [ raised |-> FirstRaised(<<kvs.raised,
                               \* tf.pad with a negative padding
                               IF max_sel_num - n < 0 THEN "InvalidArgumentError"
                               ELSE "None">>),
      sel_vals |-> [i \in 1..max_sel_num |-> IF i <= n THEN sel[i][2] ELSE <<>>],
      len_msk |-> [i \in 1..max_sel_num |-> i - 1 < n],
      indices |-> [i \in 1..max_sel_num |-> IF i - 1 < n THEN i - 1 ELSE 0] ])))))

\* lines 634-663, the batched path
lookup_preprocess(fc, fields) ==
  With(fields[fc.input_names[1]].values, LAMBDA key_fields :
  With(fields[fc.input_names[2]].values, LAMBDA map_fields :
  With([i \in DOMAIN key_fields |-> lookup(fc, key_fields[i], map_fields[i])],
       LAMBDA rows :
  With(Len(rows), LAMBDA batch_size :
  With(Flatten([i \in DOMAIN rows |-> boolean_mask(rows[i].indices, rows[i].len_msk)]),
       LAMBDA indices_1 :
  With(Flatten([i \in DOMAIN rows |->
                  boolean_mask([j \in 1..fc.lookup_max_sel_elem_num |-> i - 1],
                               rows[i].len_msk)]), LAMBDA indices_0 :
    [ raised |-> FirstRaised([i \in DOMAIN rows |-> rows[i].raised]),
      tensor |->
        [ indices |-> [k \in DOMAIN indices_0 |-> <<indices_0[k], indices_1[k]>>],
          values |-> Flatten([i \in DOMAIN rows |->
                                boolean_mask(rows[i].sel_vals, rows[i].len_msk)]),
          dense_shape |-> <<batch_size, reduce_max(indices_1) + 1>> ] ]))))))

\* lines 350-353: the LookupFeature branch
preprocess_lookup(self, fc, fields, parsed) ==
  IF ~(fc.has_feature_name /\ fc.feature_name # "") \/ Len(fc.input_names) # 2
  THEN [self |-> self, raised |-> "AssertionError", parsed_dict |-> parsed]
  ELSE With(lookup_preprocess(fc, fields), LAMBDA r :
         [ self |-> self, raised |-> r.raised,
           parsed_dict |-> Put(parsed, fc.feature_name, r.tensor) ])

(***************************************************************************)
(* Dense tensors: tf.sparse_to_dense and the index grids of the raw        *)
(* projections.                                                            *)
(***************************************************************************)
RECURSIVE Product(_)
Product(ns) == IF ns = <<>> THEN 1 ELSE Head(ns) * Product(Tail(ns))

\* the index of the k-th element (k counted from 0) of a tensor of the given
\* shape, in row-major order
IndexAt(shape, k) ==
  [d \in DOMAIN shape |->
     (k \div Product(SubSeq(shape, d + 1, Len(shape)))) % shape[d]]

\* every index of a tensor of the given shape, in row-major order
IndexGrid(shape) == [k \in 1..Product(shape) |-> IndexAt(shape, k - 1)]

InBounds(index, shape) ==
  /\ Len(index) = Len(shape)
  /\ \A d \in DOMAIN shape : index[d] >= 0 /\ index[d] < shape[d]

\* tf.sparse_to_dense(indices, shape, values), default value 0: an error when
\* an index does not fit the shape or has no value
sparse_to_dense(indices, shape, values) ==
  IF Len(indices) # Len(values) \/ \E k \in DOMAIN indices : ~InBounds(indices[k], shape)
  THEN [raised |-> "InvalidArgumentError", tensor |-> Tensor("float32", shape, <<>>)]
  ELSE [ raised |-> "None",
         tensor |->
           Tensor("float32", shape,
                  [k \in 1..Product(shape) |->
                     IF \E m \in DOMAIN indices : indices[m] = IndexAt(shape, k - 1)
                     THEN values[CHOOSE m \in DOMAIN indices :
                                   indices[m] = IndexAt(shape, k - 1)]
                     ELSE 0]) ]

\* the _raw_proj_id and _raw_proj_val containers over the indices of a
\* shape: one entry per index, the id being the second coordinate
raw_proj_id(shape) ==
  With(IndexGrid(shape), LAMBDA indices :
    [ indices |-> indices,
      values |-> [k \in DOMAIN indices |-> indices[k][2]],
      dense_shape |-> shape ])

\* tf.reshape(dense, [-1]) as the values; a count that differs from the
\* number of indices makes an invalid container
raw_proj_val(shape, dense) ==
  SparseTensor(IndexGrid(shape), dense.values, shape)

(***************************************************************************)
(* Input._preprocess, SequenceFeature branch (input.py lines 354-472), on  *)
(* a string field of shape [batch_size].                                   *)
(***************************************************************************)
\* tf.strings.split on a 1-D string tensor: split on the whole separator,
\* empty tokens kept (an empty string holds one empty token)
strings_split(field, sep) == string_split(field, sep, FALSE)

\* a split that numbers the inner values by token instead of by the row and
\* the step of their token
seq_multi_split_renumbered(fc, split) ==
  With([i \in DOMAIN split.values |->
          split_string(split.values[i], fc.seq_multi_sep, TRUE)], LAMBDA multi_vals :
    [ indices |-> Flatten([i \in DOMAIN multi_vals |->
                             [j \in DOMAIN multi_vals[i] |-> <<i - 1, 0, j - 1>>]]),
      values |-> Flatten(multi_vals),
      dense_shape |-> Append(split.dense_shape,
                             MaxOf([i \in DOMAIN multi_vals |-> Len(multi_vals[i])])) ])

\* lines 362-374: the 3-D container of a feature with seq_multi_sep
seq_multi_split(fc, split) ==
  With([i \in DOMAIN split.values |->
          split_string(split.values[i], fc.seq_multi_sep, TRUE)], LAMBDA multi_vals :
    [ indices |-> Flatten([i \in DOMAIN multi_vals |->
                             [j \in DOMAIN multi_vals[i] |->
                                Append(split.indices[i], j - 1)]]),
      values |-> Flatten(multi_vals),
      dense_shape |-> Append(split.dense_shape,
                             MaxOf([i \in DOMAIN multi_vals |-> Len(multi_vals[i])])) ])

\* a fraction in lowest terms; an integer when the denominator divides
RECURSIVE Gcd(_, _)
Gcd(a, b) == IF b = 0 THEN a ELSE Gcd(b, a % b)

Abs(a) == IF a < 0 THEN -a ELSE a

\* the significand of tf.float32
FloatBits == 24

\* the distance between neighbouring float32 values at magnitude a
RECURSIVE Spacing(_)
Spacing(a) == IF a < 2 ^ FloatBits THEN 1 ELSE 2 * Spacing(a \div 2)

\* tf.to_float / a cast to tf.float32 of an integer: the nearest float32,
\* ties to the even significand
to_float(v) ==
  With(Spacing(Abs(v)), LAMBDA sp :
  With(Abs(v) \div sp, LAMBDA q :
  With(Abs(v) % sp, LAMBDA r :
    (IF v < 0 THEN -1 ELSE 1)
      * sp * (IF 2 * r < sp \/ (2 * r = sp /\ q % 2 = 0) THEN q ELSE q + 1))))

\* tf.string_to_number(strings, tf.float32)
string_to_float(strings) ==
  With(string_to_number(strings), LAMBDA parsed :
    [ raised |-> parsed.raised,
      values |-> [i \in DOMAIN parsed.values |-> to_float(parsed.values[i])] ])

Frac(n, d) ==
  With(Gcd(Abs(n), Abs(d)), LAMBDA g :
    IF Abs(d) = g THEN (n \div g) * (d \div Abs(d))
    ELSE <<(n \div g) * (d \div Abs(d)), Abs(d) \div g>>)

\* values left as they are
normalize_skipped(values, fc) == values

\* (v - min_val) / (max_val - min_val)
normalize(values, fc) ==
  [i \in DOMAIN values |-> Frac(values[i] - fc.min_val, fc.max_val - fc.min_val)]

\* lines 375-396: the number conversions of the split values
sequence_to_number(fc, tensor) ==
  With(IF fc.num_buckets > 1 /\ fc.max_val = fc.min_val
       THEN string_to_number(tensor.values)
       ELSE IF fc.sub_feature_type = "RawFeature"
       THEN string_to_float(tensor.values)
       ELSE [raised |-> "None", values |-> tensor.values], LAMBDA vals :
    [ raised |-> vals.raised,
      tensor |-> [tensor EXCEPT !.values =
                    IF vals.raised = "None" /\ fc.num_buckets > 1 /\ fc.max_val > fc.min_val
                    THEN normalize(vals.values, fc) ELSE vals.values] ])

\* lines 399-401 and 432-434: the feature is projected as a raw vector
sequence_is_projected(self, fc) ==
  /\ fc.boundaries = <<>> /\ fc.num_buckets <= 1 /\ fc.hash_bucket_size <= 0
  /\ self.data_config.sample_weight # fc.input_names[1]
  /\ fc.sub_feature_type = "RawFeature"
  /\ fc.raw_input_dim >= 1

\* lines 354-472
preprocess_sequence(self, fc, fields, parsed) ==
  With(fc.input_names[1], LAMBDA input_0 :
  With(strings_split(fields[input_0].values, fc.separator), LAMBDA split :
  With(sequence_to_number(fc, IF fc.has_seq_multi_sep THEN seq_multi_split(fc, split)
                              ELSE split), LAMBDA seq :
  IF ~sequence_is_projected(self, fc)
  THEN [self |-> self, raised |-> seq.raised,
        parsed_dict |-> Put(parsed, input_0, seq.tensor)]
  ELSE
  With(sparse_to_dense(seq.tensor.indices,
                       IF fc.raw_input_dim = 1
                       THEN <<seq.tensor.dense_shape[1], fc.sequence_length>>
                       ELSE <<seq.tensor.dense_shape[1], fc.sequence_length,
                              fc.raw_input_dim>>,
                       seq.tensor.values), LAMBDA dense :
  With(raw_proj_val(dense.tensor.shape, dense.tensor), LAMBDA proj_val :
    [ self |-> [self EXCEPT !.appended_fields =
                  @ \o <<Suffixed(input_0, "_raw_proj_id"),
                         Suffixed(input_0, "_raw_proj_val")>>],
      raised |-> FirstRaised(<<seq.raised, dense.raised, proj_val.raised>>),
      parsed_dict |->
        Put(Put(Put(parsed, input_0, dense.tensor),
                Suffixed(input_0, "_raw_proj_id"), raw_proj_id(dense.tensor.shape)),
            Suffixed(input_0, "_raw_proj_val"), proj_val.tensor) ])))))

(***************************************************************************)
(* Input._preprocess, RawFeature branch (input.py lines 473-525).          *)
(***************************************************************************)
NumericTypes == {"int32", "int64", "double", "float32"}

\* lines 475-496: the field as a float32 tensor
raw_to_float(fc, field) ==
  IF field.dtype = "string"
  THEN IF fc.raw_input_dim > 1
       THEN With(string_split(field.values, fc.separator, TRUE), LAMBDA tmp_fea :
            With(string_to_float(tmp_fea.values), LAMBDA tmp_vals :
            With(sparse_to_dense(tmp_fea.indices, <<field.shape[1], fc.raw_input_dim>>,
                                 tmp_vals.values), LAMBDA dense :
              [ raised |-> FirstRaised(<<tmp_vals.raised, dense.raised>>),
                tensor |-> dense.tensor ])))
       ELSE With(string_to_float(field.values), LAMBDA vals :
              [ raised |-> vals.raised,
                tensor |-> Tensor("float32", field.shape, vals.values) ])
  ELSE IF field.dtype \in NumericTypes
  THEN [ raised |-> "None",
         tensor |-> Tensor("float32", field.shape,
                           [i \in DOMAIN field.values |-> to_float(field.values[i])]) ]
  ELSE [raised |-> "AssertionError", tensor |-> field]

\* lines 500-501: the feature is projected as a raw vector
raw_is_projected(self, fc) ==
  /\ fc.boundaries = <<>> /\ fc.num_buckets <= 1
  /\ self.data_config.sample_weight # fc.input_names[1]

\* lines 473-525
preprocess_raw(self, fc, fields, parsed) ==
  With(fc.input_names[1], LAMBDA input_0 :
  With(raw_to_float(fc, fields[input_0]), LAMBDA converted :
  With(IF fc.max_val > fc.min_val
       THEN [converted.tensor EXCEPT !.values = normalize(@, fc)]
       ELSE converted.tensor, LAMBDA tensor :
  IF converted.raised # "None" \/ ~raw_is_projected(self, fc)
  THEN [self |-> self, raised |-> converted.raised,
        parsed_dict |-> Put(parsed, input_0, tensor)]
  ELSE
  With(<<tensor.shape[1], fc.raw_input_dim>>, LAMBDA shape :
  With(raw_proj_val(shape, tensor), LAMBDA proj_val :
    [ self |-> [self EXCEPT !.appended_fields =
                  @ \o <<Suffixed(input_0, "_raw_proj_id"),
                         Suffixed(input_0, "_raw_proj_val")>>],
      raised |-> proj_val.raised,
      parsed_dict |->
        Put(Put(Put(parsed, input_0, tensor),
                Suffixed(input_0, "_raw_proj_id"), raw_proj_id(shape)),
            Suffixed(input_0, "_raw_proj_val"), proj_val.tensor) ])))))

(***************************************************************************)
(* Input._preprocess, IdFeature branch (input.py lines 526-551).           *)
(* A float value of the field is a fraction <<numerator, denominator>>.    *)
(***************************************************************************)
DigitChar(d) == CHOOSE c \in Digits : DigitValue(c) = d

\* the decimal digits of a natural number
RECURSIVE DigitsOf(_)
DigitsOf(n) ==
  IF n < 10 THEN <<DigitChar(n)>> ELSE Append(DigitsOf(n \div 10), DigitChar(n % 10))

\* the last width digits of n, zeros in front
RECURSIVE PaddedDigits(_, _)
PaddedDigits(n, width) ==
  IF width = 0 THEN <<>>
  ELSE Append(PaddedDigits(n \div 10, width - 1), DigitChar(n % 10))

Numerator(v) == v[1]
Denominator(v) == v[2]

\* n / d rounded to an integer, ties to even
RoundHalfEven(n, d) ==
  With(n \div d, LAMBDA q :
    IF 2 * (n % d) > d \/ (2 * (n % d) = d /\ q % 2 = 1) THEN q + 1 ELSE q)

\* tf.as_string of a non-negative float with a precision: fixed notation
\* with that many decimals
float_as_string(v, precision) ==
  With(RoundHalfEven(Numerator(v) * 10 ^ precision, Denominator(v)), LAMBDA scaled :
    DigitsOf(scaled \div 10 ^ precision)
      \o (IF precision > 0 THEN <<".">> ELSE <<>>)
      \o PaddedDigits(scaled % 10 ^ precision, precision))

\* tf.as_string(field, precision); precision 0 stands for None, which writes
\* a float with 6 decimals
as_string(field, precision) ==
  Tensor("string", field.shape,
         [i \in DOMAIN field.values |->
            IF field.dtype \in {"float32", "double"}
            THEN float_as_string(field.values[i],
                                 IF precision > 0 THEN precision ELSE 6)
            ELSE DigitsOf(field.values[i])])

\* the conversion without the check of the precision
id_hash_to_string_unchecked(fc, field) ==
  IF field.dtype = "string" THEN [raised |-> "None", tensor |-> field]
  ELSE [ raised |-> "None",
         tensor |-> as_string(field, IF field.dtype \in {"float32", "double"}
                                     THEN fc.precision ELSE 0) ]

\* lines 530-547: the field of a feature with hash_bucket_size as strings
id_hash_to_string(fc, field) ==
  IF field.dtype = "string" THEN [raised |-> "None", tensor |-> field]
  ELSE IF field.dtype \in {"float32", "double"} /\ ~(fc.precision > 0)
  THEN [raised |-> "AssertionError", tensor |-> field]
  ELSE [ raised |-> "None",
         tensor |-> as_string(field, IF field.dtype \in {"float32", "double"}
                                     THEN fc.precision ELSE 0) ]

\* lines 526-551
preprocess_id(self, fc, fields, parsed) ==
  With(fc.input_names[1], LAMBDA input_0 :
  With(IF fc.has_hash_bucket_size THEN id_hash_to_string(fc, fields[input_0])
       ELSE IF fc.num_buckets > 0 /\ fields[input_0].dtype = "string"
       THEN With(string_to_number(fields[input_0].values), LAMBDA vals :
              [ raised |-> vals.raised,
                tensor |-> Tensor("int32", fields[input_0].shape, vals.values) ])
       ELSE [raised |-> "None", tensor |-> fields[input_0]], LAMBDA converted :
    [ self |-> self, raised |-> converted.raised,
      parsed_dict |-> Put(parsed, input_0, converted.tensor) ]))

\* lines 290-573: the branch of the feature's type
preprocess_feature(self, fc, fields, parsed) ==
  CASE fc.feature_type = "TagFeature" -> preprocess_tag(self, fc, fields, parsed)
    [] fc.feature_type = "LookupFeature" -> preprocess_lookup(self, fc, fields, parsed)
    [] fc.feature_type = "SequenceFeature" -> preprocess_sequence(self, fc, fields, parsed)
    [] fc.feature_type = "RawFeature" -> preprocess_raw(self, fc, fields, parsed)
    [] fc.feature_type = "IdFeature" -> preprocess_id(self, fc, fields, parsed)

\* lines 289-573: the loop over the feature configs, from entry i on
RECURSIVE preprocess_features(_, _, _, _)
preprocess_features(self, fields, parsed, i) ==
  IF i > Len(self.feature_configs)
  THEN [self |-> self, raised |-> "None", parsed_dict |-> parsed]
  ELSE With(preprocess_feature(self, self.feature_configs[i], fields, parsed), LAMBDA r :
         IF r.raised # "None" THEN r
         ELSE preprocess_features(r.self, fields, r.parsed_dict, i + 1))

\* lines 578-588: a string label as float32, split into label_dim columns
\* when label_dim > 1
string_label(self, input_id, field) ==
  IF self.label_dim[input_id] > 1
  THEN IF input_id > Len(self.label_sep)
       THEN [raised |-> "IndexError", tensor |-> field]
       ELSE With(string_split(field.values, self.label_sep[input_id], TRUE).values,
                 LAMBDA tokens :
            With(string_to_float(tokens), LAMBDA vals :
              [ raised |-> IF Len(tokens) % self.label_dim[input_id] # 0
                           THEN "InvalidArgumentError" ELSE vals.raised,
                tensor |-> Tensor("float32",
                                  <<Len(tokens) \div self.label_dim[input_id],
                                    self.label_dim[input_id]>>,
                                  vals.values) ]))
  ELSE With(string_to_float(field.values), LAMBDA vals :
         [raised |-> vals.raised, tensor |-> Tensor("float32", field.shape, vals.values)])

\* lines 575-593: the label fields, from label input_id on
RECURSIVE preprocess_labels(_, _, _, _)
preprocess_labels(self, fields, parsed, input_id) ==
  IF input_id > Len(self.label_fields)
  THEN [self |-> self, raised |-> "None", parsed_dict |-> parsed]
  ELSE With(self.label_fields[input_id], LAMBDA input_name :
         IF input_name \notin DOMAIN fields
         THEN preprocess_labels(self, fields, parsed, input_id + 1)
         ELSE With(IF fields[input_name].dtype = "string"
                   THEN string_label(self, input_id, fields[input_name])
                   ELSE IF fields[input_name].dtype \in NumericTypes
                   THEN [raised |-> "None", tensor |-> fields[input_name]]
                   ELSE [raised |-> "AssertionError", tensor |-> fields[input_name]],
                   LAMBDA label :
                IF label.raised # "None"
                THEN [self |-> self, raised |-> label.raised, parsed_dict |-> parsed]
                ELSE preprocess_labels(self, fields, Put(parsed, input_name, label.tensor),
                                       input_id + 1)))

\* lines 595-598: the sample weight of a batch that is not a prediction batch
sample_weight(self, fields, parsed) ==
  IF self.data_config.has_sample_weight /\ self.mode # "PREDICT"
  THEN IF self.data_config.sample_weight \notin DOMAIN fields
       THEN [self |-> self, raised |-> "KeyError", parsed_dict |-> parsed]
       ELSE [self |-> self, raised |-> "None",
             parsed_dict |-> Put(parsed, "SAMPLE_WEIGHT",
                                 fields[self.data_config.sample_weight])]
  ELSE [self |-> self, raised |-> "None", parsed_dict |-> parsed]

\* Input._preprocess (lines 252-599) on one batch, without a sampler
preprocess(self, fields) ==
  With(preprocess_features(self, fields, EmptyDict, 1), LAMBDA features :
    IF features.raised # "None" THEN features
    ELSE With(preprocess_labels(features.self, fields, features.parsed_dict, 1),
              LAMBDA labels :
           IF labels.raised # "None" THEN labels
           ELSE sample_weight(labels.self, fields, labels.parsed_dict)))

\* Input.__init__, line 115, for the given feature configs, without labels
NewInput(feature_configs) ==
  [ feature_configs |-> feature_configs, appended_fields |-> <<>>,
    data_config |-> [has_sample_weight |-> FALSE, sample_weight |-> ""],
    mode |-> "TRAIN",
    label_fields |-> <<>>, label_sep |-> <<>>, label_dim |-> <<>> ]

\* Input.__init__, lines 57-62: the label settings, label_dim filled up with 1
NewLabelInput(label_fields, label_sep, label_dim) ==
  [ NewInput(<<>>) EXCEPT
      !.label_fields = label_fields,
      !.label_sep = label_sep,
      !.label_dim = [i \in 1..Max(Len(label_dim), Len(label_fields)) |->
                       IF i <= Len(label_dim) THEN label_dim[i] ELSE 1] ]

\* one call of _preprocess; a batch that fails yields no parsed_dict
Preprocess ==
  /\ pc \in {"input", "parsed", "error"}
  /\ calls < MaxCalls
  /\ calls' = calls + 1
  /\ \E r \in {preprocess(input, field_dict)} :
       /\ input' = r.self
       /\ raised' = r.raised
       /\ parsed_dict' = IF r.raised = "None" THEN r.parsed_dict ELSE Idle
       /\ pc' = IF r.raised = "None" THEN "parsed" ELSE "error"
  /\ UNCHANGED <<field_dict, registryVars, pureVars>>

(***************************************************************************)
(* Batches of a Tag feature.                                               *)
(***************************************************************************)
RECURSIVE Join(_, _)
Join(tokens, sep) ==
  IF tokens = <<>> THEN <<>>
  ELSE IF Len(tokens) = 1 THEN tokens[1]
  ELSE tokens[1] \o <<sep>> \o Join(Tail(tokens), sep)

SeqsUpTo(S, n) == UNION {[1..k -> S] : k \in 0..n}

\* the fields of n rows holding at most budget tokens in all, each row the
\* join of its tokens
RECURSIVE FieldsOf(_, _, _)
FieldsOf(tokens, n, budget) ==
  IF n = 0 THEN {<<>>}
  ELSE UNION { { <<Join(row, Separator)>> \o rest
                   : rest \in FieldsOf(tokens, n - 1, budget - Len(row)) }
               : row \in SeqsUpTo(tokens, budget) }

\* well-formed "key:weight" tokens, and tokens with no or two kv separators
KvTokens ==
  { <<"a", ":", "1">>, <<"7", ":", "2">>, <<"b">>, <<"1", ":", "2", ":", "3">> }

TagTokens == { <<"7">> }
WeightTokens == { <<"1">>, <<"2">> }

TagConfig(o) ==
  Override(DefaultConfig, o @@ [feature_type |-> "TagFeature", input_names |-> <<"f1">>])
    @@ [separator |-> Separator, kv_separator |-> KvSeparator]

\* a Tag feature with kv_separator on one input, or with a second input of
\* parallel weights, and one batch for it
InitTag ==
  /\ \E hash \in BOOLEAN, n \in 1..MaxBatch :
       \/ /\ input = NewInput(<<TagConfig([has_kv_separator |-> TRUE,
                                           has_hash_bucket_size |-> hash,
                                           hash_bucket_size |-> IF hash THEN 10 ELSE 0])>>)
          /\ \E f \in FieldsOf(KvTokens, n, MaxTags) :
               field_dict = [x \in {"f1"} |-> Field("string", f)]
       \/ /\ input = NewInput(<<TagConfig([input_names |-> <<"f1", "f2">>,
                                           has_hash_bucket_size |-> hash,
                                           hash_bucket_size |-> IF hash THEN 10 ELSE 0])>>)
          /\ \E f \in FieldsOf(TagTokens, n, MaxTags), w \in FieldsOf(WeightTokens, n, MaxTags) :
               field_dict = [x \in {"f1", "f2"} |->
                               Field("string", IF x = "f1" THEN f ELSE w)]
  /\ parsed_dict = Idle
  /\ calls = 0
  /\ pc = "input"
  /\ raised = "None"
  /\ parser = Idle /\ idx = 0
  /\ call = Idle /\ ret = Idle

\* Input._preprocess on one batch of a Tag feature
SpecTag == InitTag /\ [][Preprocess]_vars

(***************************************************************************)
(* Properties of the Tag preprocessor.                                     *)
(***************************************************************************)
Preprocessed == pc \in {"parsed", "error"}

TagFc == input.feature_configs[1]

\* the tokens of a field of the batch, row by row
BatchTokens(name) ==
  Flatten([i \in DOMAIN field_dict[name].values |->
             split_string(field_dict[name].values[i], Separator, TRUE)])

KvParts(token) == split_string(token, KvSeparator, FALSE)

WellFormed(token) == Len(KvParts(token)) = 2

KvBatch == Preprocessed /\ TagFc.has_kv_separator

WeightsBatch == Preprocessed /\ Len(TagFc.input_names) > 1

\* C8 as stated: with kv_separator configured, a batch holding a tag token
\* that does not split into exactly two parts on kv_separator fails, and no
\* key or weight container is produced.
C8_Original ==
  (KvBatch /\ \E i \in DOMAIN BatchTokens("f1") : ~WellFormed(BatchTokens("f1")[i]))
    => (pc = "error" /\ raised # "None" /\ parsed_dict = Idle)

\* the key a well-formed token yields: its first part, as int32 when the
\* feature has no hash_bucket_size
KeyOfToken(token) ==
  IF TagFc.has_hash_bucket_size THEN KvParts(token)[1] ELSE NumberOf(KvParts(token)[1])

\* C9: with kv_separator configured and every token of the batch
\* well-formed, <input>_WEIGHT is recorded as an appended field, and when
\* the batch is parsed the key container under the input name and the weight
\* container under <input>_WEIGHT have the same indices (the positions of
\* the tokens) and the same dense_shape, and the i-th key and the i-th
\* weight are the two parts of the i-th token.
C9_KvAlignment ==
  (KvBatch /\ \A i \in DOMAIN BatchTokens("f1") : WellFormed(BatchTokens("f1")[i]))
    => /\ \E k \in DOMAIN input.appended_fields : input.appended_fields[k] = "f1_WEIGHT"
       /\ pc = "parsed" =>
            /\ {"f1", "f1_WEIGHT"} \subseteq DOMAIN parsed_dict
            /\ parsed_dict["f1"].indices = parsed_dict["f1_WEIGHT"].indices
            /\ parsed_dict["f1"].indices
                 = string_split(field_dict["f1"].values, Separator, TRUE).indices
            /\ parsed_dict["f1"].dense_shape = parsed_dict["f1_WEIGHT"].dense_shape
            /\ Len(parsed_dict["f1"].values) = Len(BatchTokens("f1"))
            /\ Len(parsed_dict["f1_WEIGHT"].values) = Len(BatchTokens("f1"))
            /\ \A i \in DOMAIN BatchTokens("f1") :
                 /\ parsed_dict["f1"].values[i] = KeyOfToken(BatchTokens("f1")[i])
                 /\ parsed_dict["f1_WEIGHT"].values[i]
                      = NumberOf(KvParts(BatchTokens("f1")[i])[2])

\* a parsed batch of two rows whose well-formed tokens differ in key and weight
C9_Witness ==
  /\ KvBatch /\ pc = "parsed"
  /\ \A i \in DOMAIN BatchTokens("f1") : WellFormed(BatchTokens("f1")[i])
  /\ Len(field_dict["f1"].values) = 2
  /\ \E i, j \in DOMAIN BatchTokens("f1") :
       /\ KvParts(BatchTokens("f1")[i])[1] # KvParts(BatchTokens("f1")[j])[1]
       /\ KvParts(BatchTokens("f1")[i])[2] # KvParts(BatchTokens("f1")[j])[2]

\* C10: with a second input of parallel weights, a batch whose number of
\* tag values differs from its number of weight values fails with an error
\* and yields no weight container.
C10_WeightCountChecked ==
  (WeightsBatch /\ Len(BatchTokens("f1")) # Len(BatchTokens("f2")))
    => (pc = "error" /\ raised = "InvalidArgumentError" /\ parsed_dict = Idle)

\* a failed batch with tags and weights, more tags than weights
C10_Witness ==
  /\ WeightsBatch /\ pc = "error"
  /\ Len(BatchTokens("f2")) > 0
  /\ Len(BatchTokens("f1")) > Len(BatchTokens("f2"))

\* C29 as stated: with a second input of parallel weights, whenever the
\* check of the two value counts passes, the weight container has exactly
\* the (row, position) indices of the tag container.
C29_Original ==
  (WeightsBatch /\ pc = "parsed") =>
    parsed_dict["f2"].indices = parsed_dict["f1"].indices

(***************************************************************************)
(* Batches of a Lookup feature.                                            *)
(***************************************************************************)
LookupKeys == { <<"a">>, <<"b">> }

\* "key:value" entries, and entries with no or two kv separators
LookupEntries ==
  { <<"a", ":", "1">>, <<"a", ":", "2">>, <<"b", ":", "3">>, <<"b">>,
    <<"a", ":", "1", ":", "2">> }

\* values of lookup_max_sel_elem_num
MaxSelNums == {1, 2}

LookupConfig(max_sel_num) ==
  Override(DefaultConfig, [feature_type |-> "LookupFeature", input_names |-> <<"f1", "f2">>,
                           has_feature_name |-> TRUE, feature_name |-> "fn"])
    @@ [separator |-> Separator, kv_separator |-> KvSeparator,
        lookup_max_sel_elem_num |-> max_sel_num]

InitLookup ==
  /\ \E max_sel_num \in MaxSelNums, n \in 1..MaxBatch :
       /\ input = NewInput(<<LookupConfig(max_sel_num)>>)
       /\ \E keys \in [1..n -> LookupKeys], maps \in FieldsOf(LookupEntries, n, MaxTags) :
            field_dict = [x \in {"f1", "f2"} |->
                            Field("string", IF x = "f1" THEN keys ELSE maps)]
  /\ parsed_dict = Idle
  /\ calls = 0
  /\ pc = "input"
  /\ raised = "None"
  /\ parser = Idle /\ idx = 0
  /\ call = Idle /\ ret = Idle

\* Input._preprocess on one batch of a Lookup feature
SpecLookup == InitLookup /\ [][Preprocess]_vars

(***************************************************************************)
(* Properties of the Lookup preprocessor.                                  *)
(***************************************************************************)
\* the map entries of example i, and the parts of an entry
EntriesOf(i) == split_string(field_dict["f2"].values[i], Separator, TRUE)

EntryParts(entry) == split_string(entry, KvSeparator, TRUE)

LookupWellFormed(i) ==
  \A k \in DOMAIN EntriesOf(i) : Len(EntryParts(EntriesOf(i)[k])) = 2

\* the values of the entries of example i whose key is the example's key
MatchingValues(i) ==
  With(SelectSeq(EntriesOf(i),
                 LAMBDA e : Len(EntryParts(e)) >= 2
                            /\ EntryParts(e)[1] = field_dict["f1"].values[i]),
       LAMBDA es : [k \in DOMAIN es |-> EntryParts(es[k])[2]])

\* row i of a sparse container: its positions and its values, in index order
RowPositions(t, i) ==
  With(SelectSeq(t.indices, LAMBDA ix : ix[1] = i - 1), LAMBDA ixs :
    [k \in DOMAIN ixs |-> ixs[k][2]])

RowValues(t, i) ==
  With(SelectSeq([k \in DOMAIN t.indices |-> <<t.indices[k][1], t.values[k]>>],
                 LAMBDA iv : iv[1] = i - 1), LAMBDA ivs :
    [k \in DOMAIN ivs |-> ivs[k][2]])

BatchSize == Len(field_dict["f1"].values)

\* C11: in the output of a batched Lookup feature, the row of an example
\* whose map entries are all of the form key:value holds exactly the values of
\* the entries whose key equals the example's key, in the order of the map
\* string, at positions 0..n_i-1; values of entries with another key are in
\* no row.
C11_LookupRows ==
  pc = "parsed" =>
    \A i \in 1..BatchSize :
      LookupWellFormed(i) =>
        /\ RowValues(parsed_dict["fn"], i) = MatchingValues(i)
        /\ RowPositions(parsed_dict["fn"], i)
             = [k \in DOMAIN MatchingValues(i) |-> k - 1]

\* a parsed batch with a row of two selected values and one discarded entry
C11_Witness ==
  /\ pc = "parsed"
  /\ \E i \in 1..BatchSize :
       /\ LookupWellFormed(i)
       /\ Len(EntriesOf(i)) = 3
       /\ Len(MatchingValues(i)) = 2
       /\ MatchingValues(i)[1] # MatchingValues(i)[2]
       /\ RowValues(parsed_dict["fn"], i) = MatchingValues(i)

\* C12 as stated: a batch of well-formed maps is preprocessed without error
\* whatever the number of entries matching an example's key, and each row
\* holds at most lookup_max_sel_elem_num values.
C12_Original ==
  (Preprocessed /\ \A i \in 1..BatchSize : LookupWellFormed(i)) =>
     /\ pc = "parsed"
     /\ \A i \in 1..BatchSize :
          Len(RowValues(parsed_dict["fn"], i)) <= TagFc.lookup_max_sel_elem_num

\* C13 as stated: the output of every parsed batch has dense_shape
\* (batch_size, largest number of values selected in a row), every index lies
\* inside it and no (row, position) pair occurs twice.
C13_Original ==
  pc = "parsed" =>
    With(parsed_dict["fn"], LAMBDA t :
      /\ t.dense_shape
           = <<BatchSize, MaxOf([i \in 1..BatchSize |-> Len(RowValues(t, i))])>>
      /\ \A k \in DOMAIN t.indices :
           /\ t.indices[k][1] \in 0..(t.dense_shape[1] - 1)
           /\ t.indices[k][2] \in 0..(t.dense_shape[2] - 1)
      /\ \A k, m \in DOMAIN t.indices : t.indices[k] = t.indices[m] => k = m)

(***************************************************************************)
(* Properties of the boundaries of bucketized columns.                     *)
(***************************************************************************)
\* the boundaries of the bucketized column inside a stored column, <<>> when
\* there is none
RECURSIVE BoundariesOf(_)
BoundariesOf(column) ==
  CASE column.kind = "bucketized" -> column.boundaries
    [] column.kind \in {"embedding", "shared_embedding"} -> BoundariesOf(column.categorical)
    [] column.kind = "sequence" -> BoundariesOf(column.column)
    [] OTHER -> <<>>

\* the columns the registry holds under a feature name
ColumnsNamed(name) ==
  { parser[table][name] : table \in { t \in {"deep_columns", "wide_columns", "sequence_columns"} :
                                        name \in DOMAIN parser[t] } }

\* the catalogue entries parsed so far without failure
ParsedEntries ==
  IF pc \in {"classify", "done"}
  THEN { parser.feature_configs[i] : i \in 1..(idx - 1) }
  ELSE {}

IsNumericFeature(config) ==
  \/ config.feature_type = "RawFeature"
  \/ config.feature_type = "SequenceFeature" /\ config.sub_feature_type = "RawFeature"

Synthesizes(config) ==
  /\ IsNumericFeature(config)
  /\ config.boundaries = <<>> /\ config.num_buckets > 1 /\ config.max_val > config.min_val

\* b is the cut points 0/n, 1/n, .., (n-1)/n
IsEqualWidth(b, n) ==
  /\ Len(b) = n
  /\ \A k \in 1..n : b[k][1] * n = (k - 1) * b[k][2]
  /\ \A k \in 1..(n - 1) : RatLess(b[k], b[k + 1])
  /\ \A k \in 1..(n - 1) :
       (b[k + 1][1] * b[k][2] - b[k][1] * b[k + 1][2]) * n = b[k][2] * b[k + 1][2]

\* C17: every column the registry holds for a Raw or raw-typed Sequence
\* feature with no explicit boundaries, num_buckets > 1 and max_val > min_val
\* is bucketized by exactly num_buckets cut points k/num_buckets,
\* k = 0..num_buckets-1, strictly ascending and equally spaced; with explicit
\* boundaries the column has the explicit ones, sorted, and no other.
C17_SynthesizedBounds ==
  \A config \in ParsedEntries :
    \A column \in ColumnsNamed(FeatureName(config)) :
      /\ Synthesizes(config) => IsEqualWidth(BoundariesOf(column), config.num_buckets)
      /\ (IsNumericFeature(config) /\ config.boundaries # <<>>) =>
           /\ Range(BoundariesOf(column)) = Range(config.boundaries)
           /\ Len(BoundariesOf(column)) = Len(config.boundaries)
           /\ \A k \in 1..(Len(BoundariesOf(column)) - 1) :
                ~RatLess(BoundariesOf(column)[k + 1], BoundariesOf(column)[k])

\* a finished registry that holds a Raw column of three synthesized cut points
\* and a raw-typed Sequence column with explicit boundaries
C17_Witness ==
  /\ pc = "done"
  /\ \E c1, c2 \in ParsedEntries :
       /\ c1.feature_type = "RawFeature" /\ Synthesizes(c1) /\ c1.num_buckets = 3
       /\ \E column \in ColumnsNamed(FeatureName(c1)) : Len(BoundariesOf(column)) = 3
       /\ c2.feature_type = "SequenceFeature" /\ c2.boundaries # <<>> /\ c2.num_buckets = 3
       /\ \E column \in ColumnsNamed(FeatureName(c2)) : Len(BoundariesOf(column)) = 2

(***************************************************************************)
(* Properties of the vocabulary-size cache.                                *)
(***************************************************************************)
\* the entries before idx whose encoder reads a vocabulary file
VocabUsers ==
  { i \in 1..(idx - 1) :
      /\ i \in DOMAIN parser.feature_configs
      /\ parser.feature_configs[i].vocab_file # ""
      /\ parser.feature_configs[i].hash_bucket_size <= 0
      /\ parser.feature_configs[i].vocab_list = <<>> }

\* C21: during construction every vocabulary file path is read at most
\* once, however many entries use it; a path in the cache was read once and
\* is cached with the file's line count; a path whose read failed is not in
\* the cache and the construction has failed with the read's error.
C21_VocabReadOnce ==
  pc \in {"classify", "done", "failed"} =>
    /\ \A path \in DOMAIN parser.gfile_reads : parser.gfile_reads[path] <= 1
    /\ \A path \in DOMAIN parser.vocab_size :
         /\ path \in DOMAIN parser.gfile_reads
         /\ parser.vocab_size[path] = parser.gfile[path]
    /\ \A path \in DOMAIN parser.gfile_reads :
         path \notin DOMAIN parser.gfile =>
           /\ path \notin DOMAIN parser.vocab_size
           /\ pc = "failed" /\ raised = "NotFoundError"
    /\ \A i \in VocabUsers :
         pc \in {"classify", "done"} =>
           parser.feature_configs[i].vocab_file \in DOMAIN parser.vocab_size

\* a finished registry in which two entries used the same file, read once
C21_Witness ==
  /\ pc = "done"
  /\ Cardinality(VocabUsers) = 2
  /\ parser.gfile_reads = [x \in {"vocab.txt"} |-> 1]
  /\ parser.vocab_size = [x \in {"vocab.txt"} |-> 3]

(***************************************************************************)
(* Properties of features without embedding_dim.                           *)
(***************************************************************************)
\* entry i needs a deep embedding and has no embedding_dim: an Id, Tag,
\* Combo, Lookup or bucketized Raw feature mapped to DEEP or WIDE_AND_DEEP
NeedsUnsetDim(i) ==
  With(parser.feature_configs[i], LAMBDA config :
    /\ \/ config.feature_type \in {"IdFeature", "TagFeature", "ComboFeature", "LookupFeature"}
       \/ config.feature_type = "RawFeature" /\ raw_bounds(config) # <<>>
    /\ FeatureName(config) \in DOMAIN parser.wide_deep_dict
    /\ parser.wide_deep_dict[FeatureName(config)] \in {"DEEP", "WIDE_AND_DEEP"}
    /\ config.embedding_dim <= 0)

\* C20: the construction never gets past an Id, Tag, Combo, Lookup or
\* bucketized Raw entry that is mapped to DEEP or WIDE_AND_DEEP with
\* embedding_dim <= 0: it does not finish, and when it stops at the entry it
\* has failed with an error that is not the skipped FeatureKeyError.
C20_UnsetDimIsFatal ==
  pc \in {"classify", "done", "failed"} =>
    \A i \in DOMAIN parser.feature_configs :
      NeedsUnsetDim(i) =>
        /\ idx <= i
        /\ pc # "done"
        /\ (idx = i /\ pc = "failed") => raised \notin {"None", "FeatureKeyError"}

\* the construction stopped at a second entry, a Combo feature without
\* embedding_dim, after a first entry that registered
C20_Witness ==
  /\ pc = "failed" /\ raised = "AssertionError"
  /\ idx = 2
  /\ NeedsUnsetDim(2)
  /\ parser.feature_configs[2].feature_type = "ComboFeature"
  /\ ~NeedsUnsetDim(1)
  /\ parser.deep_columns # EmptyDict

(***************************************************************************)
(* Properties of the wide side of a shared-embedding group.                *)
(***************************************************************************)
\* the features whose wide_columns entry is still the handle of a shared column
WideHandlesOf(e) ==
  {i \in 1..NumFeatures :
     /\ KeyOf(i) \in DOMAIN parser.wide_columns
     /\ parser.wide_columns[KeyOf(i)].kind = "SharedEmbedding"
     /\ parser.wide_columns[KeyOf(i)].embedding_name = e}

\* C25 as stated: for every mix of WIDE, DEEP and WIDE_AND_DEEP members of a
\* shared-embedding group, the handle index recorded for a wide-side member
\* is the position at which its categorical column was appended to the
\* group's wide list: the index is within the list and counts the wide-side
\* members registered before it (members are appended in catalogue order).
C25_Original ==
  (Registry /\ pc = "classify" /\ DistinctNames) =>
     \A e \in EmbeddingNames : \A i \in WideHandlesOf(e) :
       /\ parser.wide_columns[KeyOf(i)].index < Len(parser.wide_share_embed_columns[e])
       /\ parser.wide_columns[KeyOf(i)].index
            = Cardinality({j \in WideHandlesOf(e) : j < i})

(***************************************************************************)
(* Batches of a Sequence feature.                                          *)
(***************************************************************************)
MultiSep == "#"

\* steps of one, two and no inner value
SeqTokens == { <<"a">>, <<"b", "#", "c">>, <<>> }

\* steps of a raw sequence, and steps of a raw sequence of vectors
RawSeqTokens == { <<"1">>, <<"2">> }
RawVecTokens == { <<"1", "#", "2">>, <<"3">> }

SeqLen == 2

SequenceConfig(o) ==
  Override(DefaultConfig, o @@ [feature_type |-> "SequenceFeature", input_names |-> <<"f1">>,
                                sequence_length |-> SeqLen])
    @@ [separator |-> Separator,
        has_seq_multi_sep |-> "seq_multi_sep" \in DOMAIN o,
        seq_multi_sep |-> IF "seq_multi_sep" \in DOMAIN o THEN o.seq_multi_sep ELSE ""]

\* a Sequence feature of ids with seq_multi_sep, a raw sequence of numbers, or
\* a raw sequence of vectors, and one batch for it
InitSequence ==
  /\ \E n \in 1..MaxBatch :
       \/ /\ \E hash \in BOOLEAN :
               input = NewInput(<<SequenceConfig([seq_multi_sep |-> MultiSep,
                                                  has_hash_bucket_size |-> hash,
                                                  hash_bucket_size |-> IF hash THEN 10 ELSE 0])>>)
          /\ \E f \in FieldsOf(SeqTokens, n, MaxTags) :
               field_dict = [x \in {"f1"} |-> Field("string", f)]
       \/ /\ input = NewInput(<<SequenceConfig([sub_feature_type |-> "RawFeature"])>>)
          /\ \E f \in FieldsOf(RawSeqTokens, n, MaxTags) :
               field_dict = [x \in {"f1"} |-> Field("string", f)]
       \/ /\ input = NewInput(<<SequenceConfig([sub_feature_type |-> "RawFeature",
                                                 raw_input_dim |-> 2,
                                                 seq_multi_sep |-> MultiSep])>>)
          /\ \E f \in FieldsOf(RawVecTokens, n, MaxTags) :
               field_dict = [x \in {"f1"} |-> Field("string", f)]
  /\ parsed_dict = Idle
  /\ calls = 0
  /\ pc = "input"
  /\ raised = "None"
  /\ parser = Idle /\ idx = 0
  /\ call = Idle /\ ret = Idle

\* Input._preprocess on one batch of a Sequence feature
SpecSequence == InitSequence /\ [][Preprocess]_vars

(***************************************************************************)
(* Properties of the Sequence preprocessor.                                *)
(***************************************************************************)
SeqFc == input.feature_configs[1]

\* the tokens of the batch with their (row, step) coordinates
ParentTokens == strings_split(field_dict["f1"].values, Separator)

\* the inner values of a token
InnerValues(token) == split_string(token, MultiSep, TRUE)

\* the number of steps of row i (rows counted from 1)
StepsOf(i) == Len(SelectSeq(ParentTokens.indices, LAMBDA ix : ix[1] = i - 1))

SeqMultiSepCase ==
  /\ pc = "parsed"
  /\ SeqFc.feature_type = "SequenceFeature"
  /\ SeqFc.has_seq_multi_sep
  /\ ~sequence_is_projected(input, SeqFc)

\* C14: the container of a Sequence feature with seq_multi_sep holds, for
\* every token at (row, step) with inner values v_0..v_{k-1}, exactly the
\* entries (row, step, 0)..(row, step, k-1) with these values, and nothing
\* else; rows keep their numbers; dense_shape is (rows, most steps in a row,
\* most inner values in a step).
C14_SeqMultiSepCoordinates ==
  SeqMultiSepCase =>
    With(parsed_dict["f1"], LAMBDA t :
      /\ Len(t.indices) = Len(t.values)
      /\ \A m \in DOMAIN t.indices :
           /\ Len(t.indices[m]) = 3
           /\ \E k \in DOMAIN ParentTokens.indices :
                /\ ParentTokens.indices[k] = SubSeq(t.indices[m], 1, 2)
                /\ t.indices[m][3] + 1 \in DOMAIN InnerValues(ParentTokens.values[k])
                /\ t.values[m] = InnerValues(ParentTokens.values[k])[t.indices[m][3] + 1]
      /\ \A k \in DOMAIN ParentTokens.indices :
           \A j \in DOMAIN InnerValues(ParentTokens.values[k]) :
             \E m \in DOMAIN t.indices :
               t.indices[m] = Append(ParentTokens.indices[k], j - 1)
      /\ \A m1, m2 \in DOMAIN t.indices : t.indices[m1] = t.indices[m2] => m1 = m2
      /\ t.dense_shape
           = << Len(field_dict["f1"].values),
                MaxOf([i \in DOMAIN field_dict["f1"].values |-> StepsOf(i)]),
                MaxOf([k \in DOMAIN ParentTokens.values |->
                         Len(InnerValues(ParentTokens.values[k]))]) >>)

\* a parsed batch of two rows whose second row has a step of two inner values
C14_Witness ==
  /\ SeqMultiSepCase
  /\ Len(field_dict["f1"].values) = 2
  /\ \E m \in DOMAIN parsed_dict["f1"].indices :
       /\ parsed_dict["f1"].indices[m][1] = 1
       /\ parsed_dict["f1"].indices[m][3] = 1
       /\ parsed_dict["f1"].values[m] = <<"c">>

\* a raw-typed Sequence feature of dimension 1 that is projected
RawSequenceCase ==
  /\ SeqFc.feature_type = "SequenceFeature"
  /\ sequence_is_projected(input, SeqFc)
  /\ SeqFc.raw_input_dim = 1

\* the raw values of row i (rows counted from 1), every step a number
RawRow(i) ==
  With(split_string(field_dict["f1"].values[i], Separator, FALSE), LAMBDA tokens :
    [j \in DOMAIN tokens |-> NumberOf(tokens[j])])

RawRowsNumeric ==
  \A i \in DOMAIN field_dict["f1"].values :
    \A token \in Range(split_string(field_dict["f1"].values[i], Separator, FALSE)) :
      IsNumber(token)

\* C16 as stated: every batch of numeric sequences, whatever their lengths,
\* is preprocessed into a dense [examples, sequence_length] array and
\* _raw_proj_id / _raw_proj_val containers with one entry per (example,
\* position), the id being the position and the val the raw value there.
C16_Original ==
  (Preprocessed /\ RawSequenceCase /\ RawRowsNumeric) =>
     /\ pc = "parsed"
     /\ parsed_dict["f1"].shape = <<Len(field_dict["f1"].values), SeqFc.sequence_length>>
     /\ \A i \in DOMAIN field_dict["f1"].values :
          \A j \in 1..SeqFc.sequence_length :
            \E m \in DOMAIN parsed_dict["f1_raw_proj_id"].indices :
              /\ parsed_dict["f1_raw_proj_id"].indices[m] = <<i - 1, j - 1>>
              /\ parsed_dict["f1_raw_proj_val"].indices[m] = <<i - 1, j - 1>>
              /\ parsed_dict["f1_raw_proj_id"].values[m] = j - 1
              /\ j \in DOMAIN RawRow(i) =>
                   parsed_dict["f1_raw_proj_val"].values[m] = RawRow(i)[j]

\* a parsed batch of a raw-typed Sequence feature projected as a raw vector
SeqProjectedCase ==
  /\ pc = "parsed"
  /\ SeqFc.feature_type = "SequenceFeature"
  /\ sequence_is_projected(input, SeqFc)

\* C27 as stated, for raw sequences of numbers and of vectors: every id of
\* the _raw_proj_id container lies in [0, raw_input_dim), the bucket range of
\* the identity column the registry builds over it.
C27_Original ==
  SeqProjectedCase =>
    \A k \in DOMAIN parsed_dict[Suffixed("f1", "_raw_proj_id")].values :
      /\ parsed_dict[Suffixed("f1", "_raw_proj_id")].values[k] >= 0
      /\ parsed_dict[Suffixed("f1", "_raw_proj_id")].values[k] < SeqFc.raw_input_dim

(***************************************************************************)
(* Batches of a Raw feature.                                               *)
(***************************************************************************)
\* entries of a string field, the second one not a float32 value
RawTokens == { <<"1">>, <<"1", "6", "7", "7", "7", "2", "1", "7">> }

\* entries of an integer field and of a float32 field
IntValues == {1, 16777217}
FloatValues == {1, 2}

RawDims == {1, 2}

\* (min_val, max_val): unset, and a range
RawRanges == { <<0, 0>>, <<1, 3>> }

\* num_buckets: unset, and a number of buckets
RawBuckets == {0, 3}

RawConfig(o) ==
  Override(DefaultConfig, o @@ [feature_type |-> "RawFeature", input_names |-> <<"f1">>])
    @@ [separator |-> Separator]

\* the numeric fields of n examples of dimension d
NumericFields(dtype, n, d) ==
  { Tensor(dtype, IF d = 1 THEN <<n>> ELSE <<n, d>>, vals)
      : vals \in [1..(n * d) -> IF dtype = "float32" THEN FloatValues ELSE IntValues] }

\* a Raw feature, projected or bucketized by boundaries, with or without
\* num_buckets and a range, and one batch for it in a string, integer or float32 field
InitRaw ==
  /\ \E n \in 1..MaxBatch, d \in RawDims, range \in RawRanges, bounds \in {<<>>, <<1>>},
        num_buckets \in RawBuckets :
       /\ input = NewInput(<<RawConfig([raw_input_dim |-> d, boundaries |-> bounds,
                                        num_buckets |-> num_buckets,
                                        min_val |-> range[1], max_val |-> range[2]])>>)
       /\ \/ \E f \in FieldsOf(RawTokens, n, MaxTags) :
               field_dict = [x \in {"f1"} |-> Field("string", f)]
          \/ \E dtype \in {"int64", "float32"} :
               \E f \in NumericFields(dtype, n, d) : field_dict = [x \in {"f1"} |-> f]
  /\ parsed_dict = Idle
  /\ calls = 0
  /\ pc = "input"
  /\ raised = "None"
  /\ parser = Idle /\ idx = 0
  /\ call = Idle /\ ret = Idle

\* Input._preprocess on one batch of a Raw feature
SpecRaw == InitRaw /\ [][Preprocess]_vars

(***************************************************************************)
(* Properties of the Raw preprocessor.                                     *)
(***************************************************************************)
RawFc == input.feature_configs[1]

RawExamples == field_dict["f1"].shape[1]

\* the original entries of example i (examples counted from 1): the numbers
\* of a string field's tokens, or the row of a numeric field
OriginalEntries(i) ==
  IF field_dict["f1"].dtype = "string"
  THEN With(split_string(field_dict["f1"].values[i], Separator, TRUE), LAMBDA tokens :
         [j \in DOMAIN tokens |-> NumberOf(tokens[j])])
  ELSE SubSeq(field_dict["f1"].values, (i - 1) * RawFc.raw_input_dim + 1,
              i * RawFc.raw_input_dim)

\* a parsed batch of a projected Raw feature whose examples have d entries
RawProjectedCase ==
  /\ pc = "parsed"
  /\ RawFc.feature_type = "RawFeature"
  /\ raw_is_projected(input, RawFc)
  /\ \A i \in 1..RawExamples : Len(OriginalEntries(i)) = RawFc.raw_input_dim

\* the dense vector of example i rebuilt from the (id, val) pairs
Rebuilt(i) ==
  [j \in 1..RawFc.raw_input_dim |->
     With(CHOOSE m \in DOMAIN parsed_dict["f1_raw_proj_id"].indices :
            /\ parsed_dict["f1_raw_proj_id"].indices[m][1] = i - 1
            /\ parsed_dict["f1_raw_proj_id"].values[m] = j - 1,
          LAMBDA m : parsed_dict["f1_raw_proj_val"].values[m])]

\* the ids of example i, in the order of the container
ProjIds(i) == RowValues(parsed_dict["f1_raw_proj_id"], i)

ProjVals(i) == RowValues(parsed_dict["f1_raw_proj_val"], i)

\* an integer that float32 holds exactly
IsFloat32(v) == v = to_float(v)

\* C15 as stated, for entries that float32 holds exactly: whatever min_val /
\* max_val and the field's type, the ids of every example are 0..d-1, the
\* vals are the original entries in order, and the vector rebuilt from the
\* pairs is the original input.
C15_Original ==
  (RawProjectedCase
     /\ \A i \in 1..RawExamples : \A v \in Range(OriginalEntries(i)) : IsFloat32(v)) =>
    \A i \in 1..RawExamples :
      /\ ProjIds(i) = [j \in 1..RawFc.raw_input_dim |-> j - 1]
      /\ ProjVals(i) = OriginalEntries(i)
      /\ Rebuilt(i) = OriginalEntries(i)

\* C15, amended: the ids of every example are 0..d-1 and the vals are the
\* entries of the emitted float32 vector in order, so that rebuilding from
\* the pairs recovers the emitted vector; an entry that float32 holds exactly
\* appears unchanged when max_val <= min_val, and as
\* (entry - min_val) / (max_val - min_val) when max_val > min_val.
C15_RawProjection ==
  RawProjectedCase =>
    \A i \in 1..RawExamples :
      /\ ProjIds(i) = [j \in 1..RawFc.raw_input_dim |-> j - 1]
      /\ ProjVals(i) = SubSeq(parsed_dict["f1"].values, (i - 1) * RawFc.raw_input_dim + 1,
                              i * RawFc.raw_input_dim)
      /\ Rebuilt(i) = ProjVals(i)
      /\ \A j \in 1..RawFc.raw_input_dim :
           IsFloat32(OriginalEntries(i)[j]) =>
             ProjVals(i)[j] = IF RawFc.max_val > RawFc.min_val
                              THEN Frac(OriginalEntries(i)[j] - RawFc.min_val,
                                        RawFc.max_val - RawFc.min_val)
                              ELSE OriginalEntries(i)[j]

\* a parsed batch of two-entry examples with a range, holding a normalized
\* value that differs from its entry
C15_Witness ==
  /\ RawProjectedCase
  /\ RawFc.raw_input_dim = 2
  /\ RawFc.max_val > RawFc.min_val
  /\ \E i \in 1..RawExamples :
       /\ ProjIds(i) = <<0, 1>>
       /\ IsFloat32(OriginalEntries(i)[2])
       /\ ProjVals(i)[2] # OriginalEntries(i)[2]

(***************************************************************************)
(* Batches of an Id feature.                                               *)
(***************************************************************************)
IdStrings == { <<"7">>, <<"a">> }
IdIntegers == {0, 12, 305}

\* float values: 1, 3/2, 5/4 and 10
IdFloats == { <<1, 1>>, <<3, 2>>, <<5, 4>>, <<10, 1>> }

Precisions == {0, 1, 2}

IdConfig(o) ==
  Override(DefaultConfig, o @@ [feature_type |-> "IdFeature", input_names |-> <<"f1">>])
    @@ [precision |-> o.precision]

IdTypes == {"string", "int32", "int64", "float32", "double"}

\* the fields of n examples of a type
IdFields(dtype, n) ==
  { Field(dtype, vals)
      : vals \in [1..n -> CASE dtype = "string" -> IdStrings
                            [] dtype \in {"int32", "int64"} -> IdIntegers
                            [] OTHER -> IdFloats] }

\* an Id feature with hash_bucket_size (unset, set to 0, positive), with
\* num_buckets or with neither, and one batch for it in a string, integer or float field
InitId ==
  /\ \E n \in 1..MaxBatch, hash \in {<<FALSE, 0>>, <<TRUE, 0>>, <<TRUE, 10>>},
        num_buckets \in {0, 5}, precision \in Precisions :
       /\ input = NewInput(<<IdConfig([has_hash_bucket_size |-> hash[1],
                                       hash_bucket_size |-> hash[2],
                                       num_buckets |-> num_buckets,
                                       precision |-> precision])>>)
       /\ \E dtype \in IdTypes :
            \E f \in IdFields(dtype, n) : field_dict = [x \in {"f1"} |-> f]
  /\ parsed_dict = Idle
  /\ calls = 0
  /\ pc = "input"
  /\ raised = "None"
  /\ parser = Idle /\ idx = 0
  /\ call = Idle /\ ret = Idle

\* Input._preprocess on one batch of an Id feature
SpecId == InitId /\ [][Preprocess]_vars

(***************************************************************************)
(* Properties of the Id preprocessor.                                      *)
(***************************************************************************)
IdFc == input.feature_configs[1]

IdHashCase ==
  /\ Preprocessed
  /\ IdFc.feature_type = "IdFeature"
  /\ IdFc.has_hash_bucket_size

\* the digits before and after the point of a fixed-notation string
IntegerPart(s) == SplitFrom(s, ".", 1, <<>>)[1]
Decimals(s) == IF Len(SplitFrom(s, ".", 1, <<>>)) = 2 THEN SplitFrom(s, ".", 1, <<>>)[2] ELSE <<>>

\* s is the value v written with p decimals: p digits after the point, and
\* no p-decimal number is nearer to v
WrittenWith(s, v, p) ==
  /\ IsNumber(IntegerPart(s)) /\ Len(Decimals(s)) = p /\ IsNumber(Decimals(s))
  /\ With(NumberOf(IntegerPart(s)) * 10 ^ p + NumberOf(Decimals(s)), LAMBDA scaled :
       With(scaled * Denominator(v) - Numerator(v) * 10 ^ p, LAMBDA diff :
         2 * Abs(diff) <= Denominator(v)))

\* C18: with hash_bucket_size set, a float32 / double field fails with an
\* AssertionError when precision <= 0 and is written as strings with
\* precision decimals when precision > 0; an integer field is written as its
\* decimal strings whatever the precision; a string field is unchanged.
C18_IdHashConversion ==
  IdHashCase =>
    With(field_dict["f1"], LAMBDA field :
      CASE field.dtype \in {"float32", "double"} /\ IdFc.precision <= 0 ->
             pc = "error" /\ raised = "AssertionError"
        [] field.dtype \in {"float32", "double"} /\ IdFc.precision > 0 ->
             /\ pc = "parsed"
             /\ parsed_dict["f1"].dtype = "string"
             /\ Len(parsed_dict["f1"].values) = Len(field.values)
             /\ \A i \in DOMAIN field.values :
                  WrittenWith(parsed_dict["f1"].values[i], field.values[i], IdFc.precision)
        [] field.dtype \in {"int32", "int64"} ->
             /\ pc = "parsed"
             /\ parsed_dict["f1"].dtype = "string"
             /\ Len(parsed_dict["f1"].values) = Len(field.values)
             /\ \A i \in DOMAIN field.values :
                  /\ IsNumber(parsed_dict["f1"].values[i])
                  /\ NumberOf(parsed_dict["f1"].values[i]) = field.values[i]
        [] OTHER -> pc = "parsed" /\ parsed_dict["f1"] = field)

\* a float batch written with two decimals
C18_Witness ==
  /\ IdHashCase
  /\ pc = "parsed"
  /\ field_dict["f1"].dtype = "float32"
  /\ IdFc.precision = 2
  /\ <<"1", ".", "2", "5">> \in Range(parsed_dict["f1"].values)
  /\ <<"1", "0", ".", "0", "0">> \in Range(parsed_dict["f1"].values)

\* C28 as stated: for hash_bucket_size unset, 0 or positive, the
\* preprocessor treats an Id feature as hash-encoded exactly when the
\* registry builds a hash-bucket column for it; on an integer field the
\* hash treatment is the conversion to strings.
C28_Original ==
  (pc = "parsed" /\ IdFc.feature_type = "IdFeature"
     /\ field_dict["f1"].dtype \in {"int32", "int64"}) =>
    (parsed_dict["f1"].dtype = "string" <=> id_encoder(IdFc) = "hash_bucket")

(***************************************************************************)
(* Batches of a label field.                                               *)
(***************************************************************************)
LabelTokens == { <<"0">>, <<"1">> }
LabelValues == {0, 1}
LabelTypes == {"string", "int32", "int64", "float32", "double", "bool"}

\* one label field "f1" of dimension 1 or 2, and a batch that holds it as a
\* string or a number, or does not hold it
InitLabel ==
  /\ \E n \in 1..MaxBatch, label_dim \in {<<>>, <<2>>}, present \in BOOLEAN :
       /\ input = NewLabelInput(<<"f1">>, <<Separator>>, label_dim)
       /\ \E dtype \in LabelTypes :
            \E f \in IF dtype = "string"
                     THEN {Field(dtype, x) : x \in FieldsOf(LabelTokens, n, MaxTags)}
                     ELSE {Field(dtype, x) : x \in [1..n -> LabelValues]} :
              field_dict = [x \in {IF present THEN "f1" ELSE "f2"} |-> f]
  /\ parsed_dict = Idle
  /\ calls = 0
  /\ pc = "input"
  /\ raised = "None"
  /\ parser = Idle /\ idx = 0
  /\ call = Idle /\ ret = Idle

\* Input._preprocess on one batch with a label field
SpecLabel == InitLabel /\ [][Preprocess]_vars

(***************************************************************************)
(* Properties of the labels.                                               *)
(***************************************************************************)
LabelPresent ==
  /\ input.label_fields = <<"f1">>
  /\ "f1" \in DOMAIN field_dict

\* the string label has exactly label_dim numbers in every example
LabelRowsComplete ==
  \A i \in DOMAIN field_dict["f1"].values :
    With(split_string(field_dict["f1"].values[i], Separator, TRUE), LAMBDA tokens :
      /\ Len(tokens) = input.label_dim[1]
      /\ \A t \in Range(tokens) : IsNumber(t))

\* C19 as stated: a label field that arrives as a string of label_dim
\* numbers per example, or as an int32 / int64 / float32 / double field, is
\* emitted as a floating-point tensor; the string label of label_dim > 1 has
\* shape [examples, label_dim].
C19_Original ==
  (Preprocessed /\ LabelPresent /\ field_dict["f1"].dtype # "bool"
     /\ (field_dict["f1"].dtype = "string" => LabelRowsComplete)) =>
    /\ pc = "parsed"
    /\ parsed_dict["f1"].dtype \in {"float32", "double"}
    /\ (field_dict["f1"].dtype = "string" /\ input.label_dim[1] > 1) =>
         parsed_dict["f1"].shape = <<Len(field_dict["f1"].values), input.label_dim[1]>>

(***************************************************************************)
(* Properties of the state _preprocess keeps on the Input object.          *)
(***************************************************************************)
\* C22 as stated, for a projected Raw feature: after any number of
\* _preprocess calls on the same Input the list of appended fields is the
\* one the first call left, the two projection fields, each named once.
C22_Original ==
  (pc = "parsed" /\ RawFc.feature_type = "RawFeature" /\ raw_is_projected(input, RawFc)) =>
     /\ Len(input.appended_fields) = 2
     /\ \A i, j \in DOMAIN input.appended_fields :
          input.appended_fields[i] = input.appended_fields[j] => i = j

(***************************************************************************)
(* The Raw feature in the registry and in the preprocessor.                *)
(***************************************************************************)
\* the column parse_raw_feature registers reads the two projection fields
ReadsProjection(column, input_0) ==
  /\ column.kind = "embedding"
  /\ column.categorical.kind = "weighted"
  /\ column.categorical.weight_feature_key = Suffixed(input_0, "_raw_proj_val")
  /\ column.categorical.categorical.key = Suffixed(input_0, "_raw_proj_id")

\* a registry built from the one Raw feature fc, mapped to wide_or_deep,
\* registers a column that reads the projection fields
RegistryReadsProjection(fc, wide_or_deep) ==
  With(parse_raw_feature(
         NewParser(<<fc>>, [x \in {FeatureName(fc)} |-> wide_or_deep], 8, GFile), fc).self,
       LAMBDA p :
         \E t \in {"wide_columns", "deep_columns"} : \E k \in DOMAIN p[t] :
           ReadsProjection(p[t][k], fc.input_names[1]))

\* C26 as stated, for a Raw feature: whatever boundaries, num_buckets,
\* min_val, max_val and embedding_dim are, and whether the feature is wide,
\* deep or both, when the registry's column reads <input>_raw_proj_id and
\* <input>_raw_proj_val, the preprocessor emits both fields for the batch.
C26_Original ==
  (pc = "parsed" /\ RawFc.feature_type = "RawFeature") =>
     \A embedding_dim \in {0, 8} : \A wide_or_deep \in WideOrDeep :
       RegistryReadsProjection([RawFc EXCEPT !.embedding_dim = embedding_dim], wide_or_deep)
         => /\ Suffixed("f1", "_raw_proj_id") \in DOMAIN parsed_dict
            /\ Suffixed("f1", "_raw_proj_val") \in DOMAIN parsed_dict

(***************************************************************************)
(* The operations that dispatch on a field's scalar type: Input.get_tf_type *)
(* (input.py lines 132-143), get_type_defaults and string_to_number of     *)
(* utils/input_utils.py.  A Python value is a record of its type and its   *)
(* value; a string is a sequence of characters.                            *)
(***************************************************************************)
\* DatasetConfig.FieldType, and an enum value that is none of its six
SupportedTypes == {"INT32", "INT64", "STRING", "BOOL", "FLOAT", "DOUBLE"}
FieldTypes == SupportedTypes \cup {"UNKNOWN"}

PyValue(type, value) == [type |-> type, value |-> value]

Returned(value) == [raised |-> "None", value |-> value]
Raised(e) == [raised |-> e, value |-> PyValue("None", 0)]

\* input.py lines 132-143
get_tf_type(field_type) ==
  IF field_type \notin SupportedTypes THEN Raised("AssertionError")
  ELSE Returned(PyValue("DType",
         CASE field_type = "INT32" -> "int32"
           [] field_type = "INT64" -> "int64"
           [] field_type = "STRING" -> "string"
           [] field_type = "BOOL" -> "bool"
           [] field_type = "FLOAT" -> "float32"
           [] OTHER -> "double"))

\* input_utils.py lines 13-20
type_defaults(field_type) ==
  CASE field_type \in {"INT32", "INT64"} -> PyValue("int", 0)
    [] field_type = "STRING" -> PyValue("str", <<>>)
    [] field_type = "BOOL" -> PyValue("bool", FALSE)
    [] OTHER -> PyValue("float", 0)

\* int(x), np.int64(x), float(x), np.float64(x) of a Python value: a number
\* is converted, a string is parsed or raises ValueError
to_number(type, x) ==
  IF x.type = "str"
  THEN IF IsNumber(x.value) THEN Returned(PyValue(type, NumberOf(x.value)))
       ELSE Raised("ValueError")
  ELSE Returned(PyValue(type, x.value))

LowerChar(c) ==
  CASE c = "T" -> "t" [] c = "F" -> "f" [] OTHER -> c

\* x.lower() == 'true': only a string has lower()
lower_is_true(x) ==
  IF x.type # "str" THEN Raised("AttributeError")
  ELSE Returned(PyValue("bool",
         [i \in DOMAIN x.value |-> LowerChar(x.value[i])] = <<"t", "r", "u", "e">>))

\* input_utils.py lines 12-37; default_val is a string
get_type_defaults(field_type, default_val) ==
  IF field_type \notin SupportedTypes THEN Raised("AssertionError")
  ELSE With(IF default_val = <<>> THEN type_defaults(field_type)
            ELSE PyValue("str", default_val), LAMBDA val :
         CASE field_type = "INT32" -> to_number("int", val)
           [] field_type = "INT64" -> to_number("int64", val)
           [] field_type = "STRING" -> Returned(val)
           [] field_type = "BOOL" -> lower_is_true(val)
           [] field_type = "FLOAT" -> to_number("float", val)
           [] OTHER -> to_number("float64", val))

\* input_utils.py lines 40-69, on a 1-D string tensor; the last branch
\* asserts a non-empty string, which never fails
utils_string_to_number(field, ftype) ==
  CASE ftype \in {"INT32", "INT64"} ->
         With(string_to_number(field.values), LAMBDA vals :
           [ raised |-> vals.raised,
             value |-> Tensor(IF ftype = "INT64" THEN "int64" ELSE "int32",
                              field.shape, vals.values) ])
    [] ftype = "FLOAT" ->
         With(string_to_float(field.values), LAMBDA vals :
           [raised |-> vals.raised, value |-> Tensor("float32", field.shape, vals.values)])
    [] ftype = "DOUBLE" ->
         With(string_to_number(field.values), LAMBDA vals :
           [raised |-> vals.raised, value |-> Tensor("double", field.shape, vals.values)])
    [] ftype = "BOOL" ->
         Returned(Tensor("bool", field.shape,
                         [i \in DOMAIN field.values |->
                            field.values[i] \in {<<"T", "r", "u", "e">>,
                                                 <<"t", "r", "u", "e">>}]))
    [] OTHER -> Returned(field)

\* default values and field entries
DefaultVals ==
  { <<>>, <<"1">>, <<"4", "2">>, <<"t", "r", "u", "e">>, <<"T", "r", "u", "e">>, <<"x">> }

InitTypes ==
  /\ \/ call \in {[fn |-> "get_tf_type", field_type |-> t] : t \in FieldTypes}
     \/ call \in {[fn |-> "get_type_defaults", field_type |-> t, default_val |-> v]
                     : t \in FieldTypes, v \in DefaultVals}
     \/ \E n \in 1..MaxBatch :
          call \in {[fn |-> "string_to_number", ftype |-> t, field |-> Field("string", f)]
                      : t \in FieldTypes, f \in [1..n -> DefaultVals \ {<<>>}]}
  /\ ret = Idle
  /\ pc = "call"
  /\ parser = Idle /\ idx = 0 /\ raised = "None"
  /\ input = Idle /\ field_dict = Idle /\ parsed_dict = Idle /\ calls = 0

\* one call that returns or raises
Finish(r) ==
  /\ ret' = IF r.raised = "None" THEN r.value ELSE Idle
  /\ raised' = r.raised
  /\ pc' = IF r.raised = "None" THEN "return" ELSE "raised"
  /\ UNCHANGED <<call, parser, idx, inputVars>>

GetTfType ==
  /\ pc = "call" /\ call.fn = "get_tf_type"
  /\ \E r \in {get_tf_type(call.field_type)} : Finish(r)

GetTypeDefaults ==
  /\ pc = "call" /\ call.fn = "get_type_defaults"
  /\ \E r \in {get_type_defaults(call.field_type, call.default_val)} : Finish(r)

StringToNumber ==
  /\ pc = "call" /\ call.fn = "string_to_number"
  /\ \E r \in {utils_string_to_number(call.field, call.ftype)} : Finish(r)

NextTypes == GetTfType \/ GetTypeDefaults \/ StringToNumber

\* one call of a type-dispatching operation
SpecTypes == InitTypes /\ [][NextTypes]_vars

(***************************************************************************)
(* Properties of the type-dispatching operations.                          *)
(***************************************************************************)
Finished == pc \in {"return", "raised"}

TypeOfCall == IF call.fn = "string_to_number" THEN call.ftype ELSE call.field_type

\* C23 as stated: a call of get_tf_type, get_type_defaults or
\* string_to_number with a type outside the six supported ones raises and
\* returns no value.
C23_Original ==
  (Finished /\ call.fn \in {"get_tf_type", "get_type_defaults", "string_to_number"}
     /\ TypeOfCall \notin SupportedTypes) =>
    pc = "raised" /\ ret = Idle

\* C30 as stated, first part: get_type_defaults with an empty default_val
\* and a supported type returns the zero value of the type and raises
\* nothing.
C30_Original ==
  (Finished /\ call.fn = "get_type_defaults" /\ call.field_type \in SupportedTypes
     /\ call.default_val = <<>>) =>
    /\ pc = "return"
    /\ ret.value = type_defaults(call.field_type).value

(***************************************************************************)
(* The effective fields of an Input (input.py lines 72-109): the input     *)
(* fields some feature config or the sample weight reads.  Field ids are   *)
(* Python list positions, counted from 0.                                  *)
(***************************************************************************)
\* data_config.input_fields of the constructions explored
InputFieldNames == <<"f0", "f1", "f2", "f3", "f4", "f5", "f6", "f7", "f8">>

\* list.index(x): the first position of x, ValueError without one
index(list, x) ==
  IF \A i \in DOMAIN list : list[i] # x THEN Raised("ValueError")
  ELSE [ raised |-> "None",
         value |-> (CHOOSE i \in DOMAIN list :
                      list[i] = x /\ \A j \in 1..(i - 1) : list[j] # x) - 1 ]

\* the hash table of a CPython set of at most 4 small ints: 8 slots, an int
\* hashes to itself, a taken slot i is followed by slot (5 * i + 1) mod 8
RECURSIVE FreeSlot(_, _)
FreeSlot(table, i) ==
  IF table[i] = -1 THEN i ELSE FreeSlot(table, (5 * i + 1) % 8)

set_add(table, x) ==
  IF \E i \in DOMAIN table : table[i] = x THEN table
  ELSE [table EXCEPT ![FreeSlot(table, x % 8)] = x]

RECURSIVE set_of(_, _)
set_of(table, list) ==
  IF list = <<>> THEN table ELSE set_of(set_add(table, Head(list)), Tail(list))

RECURSIVE Ascending(_)
Ascending(S) ==
  IF S = {} THEN <<>>
  ELSE With(CHOOSE m \in S : \A x \in S : m <= x, LAMBDA m :
         <<m>> \o Ascending(S \ {m}))

RECURSIVE Occupied(_, _)
Occupied(table, i) ==
  IF i = 8 THEN <<>>
  ELSE (IF table[i] = -1 THEN <<>> ELSE <<table[i]>>) \o Occupied(table, i + 1)

\* list(set(list)) of ints below 32: the entries in slot order; a fifth
\* entry moves the set to a table of 32 slots, where each int has its own
list_of_set(list) ==
  IF Cardinality({list[i] : i \in DOMAIN list}) > 4
  THEN Ascending({list[i] : i \in DOMAIN list})
  ELSE Occupied(set_of([i \in 0..7 |-> -1], list), 0)

\* input.py lines 80-85: the input names of the feature configs, each once,
\* in the order met; a name that is no input field fails the assert
RECURSIVE effective_names(_, _, _)
effective_names(input_fields, names, seen) ==
  IF names = <<>> THEN [raised |-> "None", value |-> seen]
  ELSE IF \A i \in DOMAIN input_fields : input_fields[i] # Head(names)
  THEN [raised |-> "AssertionError", value |-> seen]
  ELSE effective_names(input_fields, Tail(names),
         IF \E i \in DOMAIN seen : seen[i] = Head(names) THEN seen
         ELSE Append(seen, Head(names)))

RECURSIVE AllInputNames(_)
AllInputNames(feature_configs) ==
  IF feature_configs = <<>> THEN <<>>
  ELSE Head(feature_configs).input_names \o AllInputNames(Tail(feature_configs))

\* input.py lines 72-109
effective_fields(input_fields, feature_configs, data_config) ==
  With(effective_names(input_fields, AllInputNames(feature_configs), <<>>), LAMBDA from_features :
  With(IF data_config.has_sample_weight
       THEN Append(from_features.value, data_config.sample_weight)
       ELSE from_features.value, LAMBDA fields :
  With([i \in DOMAIN fields |-> index(input_fields, fields[i])], LAMBDA found :
    IF from_features.raised # "None"
    THEN [raised |-> from_features.raised, effective_fids |-> <<>>, effective_fields |-> <<>>]
    ELSE IF \E i \in DOMAIN found : found[i].raised # "None"
    THEN [raised |-> "ValueError", effective_fids |-> <<>>, effective_fields |-> <<>>]
    ELSE With(list_of_set([i \in DOMAIN found |-> found[i].value]), LAMBDA fids :
           [ raised |-> "None",
             effective_fids |-> fids,
             effective_fields |-> [i \in DOMAIN fids |-> input_fields[fids[i] + 1]] ]))))

\* input names of the feature configs explored; "g" is no input field
EffectiveNames == {"f0", "f1", "f2", "f8", "g"}

InputNameLists ==
  {<<a>> : a \in EffectiveNames} \cup {<<a, b>> : a \in EffectiveNames, b \in EffectiveNames}

SampleWeights ==
  { [has_sample_weight |-> FALSE, sample_weight |-> ""],
    [has_sample_weight |-> TRUE, sample_weight |-> "f1"],
    [has_sample_weight |-> TRUE, sample_weight |-> "f3"],
    [has_sample_weight |-> TRUE, sample_weight |-> "g"] }

InitEffective ==
  /\ \E n \in 1..MaxFeatures :
       call \in { [fn |-> "Input",
                   feature_configs |-> [i \in 1..n |-> [input_names |-> names[i]]],
                   data_config |-> dc]
                  : names \in [1..n -> InputNameLists], dc \in SampleWeights }
  /\ ret = Idle
  /\ pc = "call"
  /\ parser = Idle /\ idx = 0 /\ raised = "None"
  /\ input = Idle /\ field_dict = Idle /\ parsed_dict = Idle /\ calls = 0

\* Input.__init__, as far as the effective fields
Construct ==
  /\ pc = "call" /\ call.fn = "Input"
  /\ \E r \in {effective_fields(InputFieldNames, call.feature_configs, call.data_config)} :
       /\ ret' = r
       /\ raised' = r.raised
       /\ pc' = IF r.raised = "None" THEN "return" ELSE "raised"
  /\ UNCHANGED <<call, parser, idx, inputVars>>

SpecEffective == InitEffective /\ [][Construct]_vars

(***************************************************************************)
(* Properties of the effective fields.                                     *)
(***************************************************************************)
\* the input fields the feature configs and the sample weight of the call read
NamesRead ==
  UNION {{call.feature_configs[i].input_names[j] : j \in DOMAIN call.feature_configs[i].input_names}
           : i \in DOMAIN call.feature_configs} \cup
  (IF call.data_config.has_sample_weight THEN {call.data_config.sample_weight} ELSE {})

Constructed == pc = "return" /\ call.fn = "Input"

\* C24 as stated: after construction the effective field ids hold no
\* duplicate, increase with the input-field position, are exactly the
\* positions of the input names of the feature configs and of the sample
\* weight, and the effective field names are the names at those positions
\* in the same order.
C24_Original ==
  Constructed =>
    /\ \A i, j \in DOMAIN ret.effective_fids :
         i < j => ret.effective_fids[i] < ret.effective_fids[j]
    /\ {InputFieldNames[ret.effective_fids[i] + 1] : i \in DOMAIN ret.effective_fids} = NamesRead
    /\ ret.effective_fields =
         [i \in DOMAIN ret.effective_fids |-> InputFieldNames[ret.effective_fids[i] + 1]]

====
